---- MODULE Spec2Model ----
(***************************************************************************)
(* A model of the PrusaLink printer adapter.                               *)
(*                                                                         *)
(* Part 1: the StateManager (informers/state_manager.py): three state      *)
(* layers, the expected-change slot, the error counter, the fan error      *)
(* latch, the startup guard and the error-reason waiter.                   *)
(*                                                                         *)
(* The state manager's methods are written as operators on a record s of   *)
(* the manager's fields, so that a handler that calls other methods        *)
(* (reset, link_error_detected, stopped_or_not_printing) is the            *)
(* composition of their operators.  Under Spec every handler is one        *)
(* atomic action: it runs to completion before any other handler starts.   *)
(* Under SpecConc the serial reader thread, the error_reason_waiter        *)
(* threads, a thread inside a state_influencer wrapper and the callers of  *)
(* expect_change take their steps in any order.                            *)
(*                                                                         *)
(* Part 2: the ItemUpdater (structures/info_updater.py) with one watched   *)
(* item: the refresh queue, the two timer queues and the refresher,        *)
(* invalidator and timeout threads (SpecItems).                            *)
(***************************************************************************)
EXTENDS Integers, Sequences, FiniteSets, TLC

VARIABLES
    base_state,               \* data.base_state
    printing_state,           \* data.printing_state
    override_state,           \* data.override_state
    last_state,               \* data.last_state
    current_state,            \* data.current_state (the reported state)
    error_count,              \* data.error_count
    awaiting_error_reason,    \* data.awaiting_error_reason
    expected_state_change,    \* << >> for None, <<c>> for a StateChange c
    fan_error_name,           \* None or the name of the fan
    unsure_whether_printing,  \* the startup guard
    ok,                       \* the ok flag of every error state
    waiters,                  \* the error_reason_waiter threads: how many
                              \* are waiting and how many have been woken
    M0_after_prints,          \* cfg.printer.M0_after_prints
    emitted,                  \* the state_changed signals sent by the last handler
    source_out,               \* result of get_expected_source (SpecSource)
    state_lock,               \* the thread inside `with self.state_lock`
    error_reason_event,       \* the flag of the threading.Event
    error_reason_thread,      \* the waiter thread started last
    waiter_pc,                \* where each error_reason_waiter thread is
    specific_seen,            \* history: a specific error line has arrived
                              \* while the waiter thread was in its window
    reader_pc,                \* where the serial reader is in error_handler
    reader_groups,            \* the groups of the line it is handling
    mutator_pc,               \* where the thread in the wrapper is
    mutator_method,           \* the decorated method it has called
    wrapper_has_set,          \* the wrapper's has_set_expected_change
    watched,                  \* item.name in watched_items
    item_valid,               \* item.valid
    item_value,               \* item.value
    item_scheduled,           \* item.scheduled
    item_invalidate_at,       \* item.invalidate_at
    item_times_out_at,        \* item.times_out_at
    item_interval,            \* item.interval
    item_on_fail_interval,    \* item.on_fail_interval
    item_timeout,             \* item.timeout
    refresh_queue,            \* the items queued for a refresh
    invalidate_timers,        \* the deadlines queued for the item, sorted
    timeout_timers,           \* the deadlines queued for the item, sorted
    now,                      \* what time() returns
    refresher_pc,             \* where the refresher thread is
    invalidator_pc,           \* where the invalidator thread is
    invalidator_timer,        \* the deadline it took from invalidate_timers
    timeout_pc,               \* where the timeout thread is
    timeout_timer,            \* the deadline it took from timeout_timers
    signals,                  \* the item's signals sent by the last step
    gather_stale,             \* history: the item was invalidated while
                              \* the gather function was running
    value_stale,              \* history: the value comes from such a gather
    member_valid,             \* WatchedGroup: item.valid of each member
    group_valid,              \* WatchedGroup.valid
    valid_items,              \* WatchedGroup.valid_items
    invalid_items,            \* WatchedGroup.invalid_items
    handler_pc,               \* where the thread that changed a member is
                              \* in the group's handler
    group_signal,             \* the last signal the group sent
    cmd_name,                 \* the command that runs, None before
    cmd_pc,                   \* where the command's thread is
    cmd_source,               \* Command.source
    cmd_running,              \* Command.running
    right_state,              \* TryUntilState.right_state is set
    connected,                \* state_changed is connected to
                              \* state_changed_signal
    elapsed,                  \* QUIT_INTERVAL slices the command has waited
    succeeded,                \* _try_until_state: succeeded
    cmd_result,               \* None, "ok" or the message of CommandFailed
    serial_out,               \* the gcodes the command has enqueued
    file_printer,             \* the calls made to the file printer
    path_on_sd,               \* StartPrint: file_is_on_sd(parts)
    reset_pin,                \* RESET_PIN
    boot_handler,             \* waiter is registered for PRINTER_BOOT_REGEX
    boot_event,               \* ResetPrinter: event is set
    reset_signal,             \* how the printer was reset: gpio or dtr
    updater,                  \* ItemUpdater: running, the two events, its
                              \* threads and the thread that calls stop()
    consumer,                 \* IPCConsumer: running, ipc_queue, its thread
                              \* and the thread that calls stop()
    sd,                       \* SDCard: its data, the position of update() in
                              \* the updater thread and of a line handler in
                              \* the serial reader thread
    captured                  \* the lines captured from the printer's answer
                              \* to the listing command

conc_vars == <<state_lock, error_reason_event, error_reason_thread,
               waiter_pc, specific_seen, reader_pc, reader_groups,
               mutator_pc, mutator_method, wrapper_has_set>>

iu_vars == <<watched, item_valid, item_value, item_scheduled,
             item_invalidate_at, item_times_out_at, item_interval,
             item_on_fail_interval, item_timeout, refresh_queue,
             invalidate_timers, timeout_timers, now, refresher_pc,
             invalidator_pc, invalidator_timer, timeout_pc, timeout_timer,
             signals, gather_stale, value_stale>>

sm_vars == <<base_state, printing_state, override_state, last_state,
             current_state, error_count, awaiting_error_reason,
             expected_state_change, fan_error_name, unsure_whether_printing,
             ok, waiters, M0_after_prints, emitted, source_out>>

group_vars == <<member_valid, group_valid, valid_items, invalid_items,
                handler_pc, group_signal>>

\* the command's variables that a state manager handler leaves alone
cmd_ctl == <<cmd_name, cmd_pc, cmd_source, cmd_running, connected, elapsed,
             succeeded, cmd_result, serial_out, file_printer, path_on_sd,
             reset_pin, boot_handler, boot_event, reset_signal>>

cmd_vars == <<cmd_ctl, right_state>>

stop_vars == <<updater, consumer>>

sd_vars == <<sd, captured>>

vars == <<sm_vars, conc_vars, iu_vars, group_vars, cmd_vars, stop_vars,
          sd_vars>>

----------------------------------------------------------------------------
(* Bounds of the model *)

\* error_reason_waiter threads that may be alive at the same time
MaxWaiters == 1

\* error_reason_waiter threads that may be alive at the same time when the
\* threads are interleaved (SpecConc)
MaxThreads == 2

\* the clock of the item updater runs from 0 to MaxTime
MaxTime == 2

\* entries a timer queue may hold
MaxTimers == 2

\* QUIT_INTERVAL slices a command waits before STATE_CHANGE_TIMEOUT or the
\* timeout of ResetPrinter has passed
MaxWait == 2

\* how many times stop() is called on a component
MaxStops == 2

----------------------------------------------------------------------------
(* Values *)

None == "None"

\* command_id None
NoId == 0

\* a command id given by a caller of expect_change
CommandId == 1

States == {"READY", "BUSY", "PRINTING", "PAUSED", "FINISHED", "STOPPED",
           "ATTENTION", "ERROR"}

Sources == {"CONNECT", "WUI", "SERIAL", "MARLIN", "FIRMWARE", "HW", "USER"}

FanNames == {"Extruder", "Print"}

\* the HW error state and the other error states of the printer chain
HW == "HW"

LinkErrors == {"OTHER"}

ErrorStates == {HW} \cup LinkErrors

\* the from_states and to_states dictionaries are sets of <<key, value>>
\* pairs with at most one pair for a key
EmptyMap == {}

Map1(k, v) == {<<k, v>>}

Map2(k1, v1, k2, v2) == {<<k1, v1>>, <<k2, v2>>}

\* key in dict
Has(dict, key) == \E pair \in dict : pair[1] = key

\* dict[key]
Get(dict, key) == (CHOOSE pair \in dict : pair[1] = key)[2]

StateChange(command_id, to_states, from_states, default_source, reason, checked) ==
    [command_id |-> command_id, to_states |-> to_states,
     from_states |-> from_states, default_source |-> default_source,
     reason |-> reason, checked |-> checked]

----------------------------------------------------------------------------
(* The default expected changes of the state_influencer decorators *)

DefaultChange(m) ==
    CASE m = "printing" ->
            StateChange(NoId, Map1("PRINTING", "USER"), EmptyMap, None, None, FALSE)
      [] m = "not_printing" ->
            StateChange(NoId, EmptyMap,
                        Map2("PRINTING", "MARLIN", "PAUSED", "MARLIN"),
                        None, None, FALSE)
      [] m = "finished" ->
            StateChange(NoId, Map1("FINISHED", "MARLIN"), EmptyMap, None, None, FALSE)
      [] m = "busy" ->
            StateChange(NoId, Map1("BUSY", "MARLIN"), EmptyMap, None, None, FALSE)
      [] m = "paused" ->
            StateChange(NoId, Map1("PAUSED", "USER"), EmptyMap, None, None, FALSE)
      [] m = "resumed" ->
            StateChange(NoId, Map1("PRINTING", "USER"), EmptyMap, None, None, FALSE)
      [] m = "stopped" ->
            StateChange(NoId, EmptyMap, Map1("PRINTING", "USER"), None, None, FALSE)
      [] m = "instruction_confirmed" ->
            StateChange(NoId, Map1("READY", "MARLIN"),
                        {<<"ATTENTION", "USER">>, <<"ERROR", "MARLIN">>,
                         <<"BUSY", "HW">>, <<"FINISHED", "MARLIN">>,
                         <<"STOPPED", "MARLIN">>},
                        None, None, FALSE)
      [] m = "printer_checked" ->
            StateChange(NoId, Map1("READY", "MARLIN"),
                        Map2("FINISHED", "USER", "STOPPED", "USER"),
                        None, None, TRUE)
      [] m = "attention" ->
            StateChange(NoId, Map1("ATTENTION", "USER"), EmptyMap, None, None, FALSE)
      [] m = "error" ->
            StateChange(NoId, Map1("ERROR", "WUI"), EmptyMap, None, None, FALSE)
      [] m = "error_resolved" ->
            StateChange(NoId, EmptyMap, Map1("ERROR", "USER"), None, None, FALSE)
      [] m = "serial_error" ->
            StateChange(NoId, Map1("ERROR", "SERIAL"), EmptyMap, None, None, FALSE)
      [] m = "serial_error_resolved" ->
            StateChange(NoId, Map1("READY", "SERIAL"), EmptyMap, None, None, FALSE)

----------------------------------------------------------------------------
(* Reading the state, the expected-change slot *)

\* faulty variant: the printing layer is looked at before the override layer
get_state_printing_first(s) ==
    IF s.printing_state # None THEN s.printing_state
    ELSE IF s.override_state # None THEN s.override_state
    ELSE s.base_state

get_state(s) ==
    IF s.override_state # None THEN s.override_state
    ELSE IF s.printing_state # None THEN s.printing_state
    ELSE s.base_state

expect_change(s, change) == [s EXCEPT !.expected_state_change = <<change>>]

stop_expecting_change(s) == [s EXCEPT !.expected_state_change = << >>]

is_expected(s) ==
    LET state_change == s.expected_state_change
        expecting_change == state_change # << >>
    IN  IF expecting_change
        THEN LET expected_to == Has(state_change[1].to_states, s.current_state)
                 expected_from == Has(state_change[1].from_states, s.last_state)
                 has_default_source == state_change[1].default_source # None
             IN  expected_to \/ expected_from \/ has_default_source
        ELSE FALSE

\* faulty variant: on a conflict the source paired with the to_state is picked
get_expected_source_to_first(s) ==
    IF s.expected_state_change = << >> THEN None
    ELSE
      LET state_change == s.expected_state_change[1]
          source_from == IF Has(state_change.from_states, s.last_state)
                         THEN Get(state_change.from_states, s.last_state)
                         ELSE None
          source_to == IF Has(state_change.to_states, s.current_state)
                       THEN Get(state_change.to_states, s.current_state)
                       ELSE None
          source == IF source_to # None THEN source_to
                    ELSE IF source_from # None THEN source_from
                    ELSE None
      IN  IF source = None THEN state_change.default_source ELSE source

get_expected_source(s) ==
    IF s.expected_state_change = << >> THEN None
    ELSE
      LET state_change == s.expected_state_change[1]
          source_from == IF Has(state_change.from_states, s.last_state)
                         THEN Get(state_change.from_states, s.last_state)
                         ELSE None
          source_to == IF Has(state_change.to_states, s.current_state)
                       THEN Get(state_change.to_states, s.current_state)
                       ELSE None
          source == IF source_from # None /\ source_to # None
                       /\ source_to # source_from
                    THEN source_from
                    ELSE IF source_from # None THEN source_from
                    ELSE IF source_to # None THEN source_to
                    ELSE None
      IN  IF source = None THEN state_change.default_source ELSE source

\* faulty variant: the signal is sent with the new state as from_state
state_changed_kwargs_from_current(s) ==
    LET expected == is_expected(s)
        state_change == s.expected_state_change[1]
    IN  [from_state |-> s.current_state,
         to_state |-> s.current_state,
         command_id |-> IF expected THEN state_change.command_id ELSE NoId,
         source |-> IF expected THEN get_expected_source(s) ELSE None,
         reason |-> IF expected THEN state_change.reason ELSE None,
         checked |-> IF expected THEN state_change.checked ELSE FALSE]

\* the keyword arguments of state_changed_signal.send
state_changed_kwargs(s) ==
    LET expected == is_expected(s)
        state_change == s.expected_state_change[1]
    IN  [from_state |-> s.last_state,
         to_state |-> s.current_state,
         command_id |-> IF expected THEN state_change.command_id ELSE NoId,
         source |-> IF expected THEN get_expected_source(s) ELSE None,
         reason |-> IF expected THEN state_change.reason ELSE None,
         checked |-> IF expected THEN state_change.checked ELSE FALSE]

\* faulty variant: the expected change is left in the slot
consume_expected_not(s) == s

\* self.expected_state_change = None, after the change has been observed
consume_expected(s) == [s EXCEPT !.expected_state_change = << >>]

state_may_have_changed(s) ==
    IF get_state(s) # s.current_state
    THEN LET s1 == [s EXCEPT !.last_state = s.current_state,
                             !.current_state = get_state(s)]
         IN  [consume_expected(s1)
              EXCEPT !.emitted = Append(@, state_changed_kwargs(s1))]
    ELSE s

----------------------------------------------------------------------------
(* The bodies of the decorated state changing methods *)

printing_func(s) ==
    IF s.printing_state = None \/ s.printing_state = "PAUSED"
    THEN [s EXCEPT !.unsure_whether_printing = FALSE,
                   !.printing_state = "PRINTING"]
    ELSE s

\* faulty variant: FINISHED and STOPPED are cleared as well
not_printing_func_clears_all(s) ==
    [s EXCEPT !.unsure_whether_printing = FALSE, !.printing_state = None]

not_printing_func(s) ==
    LET s1 == [s EXCEPT !.unsure_whether_printing = FALSE]
    IN  IF s1.printing_state \notin {"FINISHED", "STOPPED"}
        THEN [s1 EXCEPT !.printing_state = None]
        ELSE s1

finished_func(s) ==
    IF s.printing_state = "PRINTING"
    THEN [s EXCEPT !.printing_state = "FINISHED"]
    ELSE s

busy_func(s) ==
    IF s.base_state = "READY" THEN [s EXCEPT !.base_state = "BUSY"] ELSE s

\* faulty variant: a finished or stopped print is paused as well
paused_func_from_any(s) ==
    [s EXCEPT !.unsure_whether_printing = FALSE, !.printing_state = "PAUSED"]

paused_func(s) ==
    IF s.printing_state \in {"PRINTING", None}
    THEN [s EXCEPT !.unsure_whether_printing = FALSE,
                   !.printing_state = "PAUSED"]
    ELSE s

resumed_func(s) ==
    IF s.printing_state = "PAUSED"
    THEN [s EXCEPT !.unsure_whether_printing = FALSE,
                   !.printing_state = "PRINTING"]
    ELSE s

stopped_func(s) ==
    IF s.printing_state \in {"PRINTING", "PAUSED"}
    THEN [s EXCEPT !.unsure_whether_printing = FALSE,
                   !.printing_state = "STOPPED"]
    ELSE s

\* faulty variant: the startup guard is not looked at
instruction_confirmed_func_unguarded(s) ==
    LET s1 == IF s.base_state = "BUSY"
              THEN [s EXCEPT !.base_state = "READY"] ELSE s
        s2 == IF ~M0_after_prints
                 /\ s1.printing_state \in {"STOPPED", "FINISHED"}
              THEN [s1 EXCEPT !.printing_state = None] ELSE s1
    IN  IF s2.override_state # None /\ s2.override_state # "ERROR"
        THEN [s2 EXCEPT !.override_state = None]
        ELSE s2

instruction_confirmed_func(s) ==
    IF s.unsure_whether_printing THEN s
    ELSE
      LET s1 == IF s.base_state = "BUSY"
                THEN [s EXCEPT !.base_state = "READY"] ELSE s
          s2 == IF ~M0_after_prints
                   /\ s1.printing_state \in {"STOPPED", "FINISHED"}
                THEN [s1 EXCEPT !.printing_state = None] ELSE s1
      IN  IF s2.override_state # None /\ s2.override_state # "ERROR"
          THEN [s2 EXCEPT !.override_state = None]
          ELSE s2

printer_checked_func(s) ==
    IF s.printing_state \in {"FINISHED", "STOPPED"}
    THEN [s EXCEPT !.printing_state = None]
    ELSE s

\* f"{self.fan_error_name} fan error"
fan_reason(fan_name) == fan_name \o " fan error"

attention_func(s) ==
    LET s1 == IF s.fan_error_name # None
              THEN [expect_change(s,
                        StateChange(NoId, Map1("ATTENTION", "FIRMWARE"),
                                    EmptyMap, None,
                                    fan_reason(s.fan_error_name), FALSE))
                    EXCEPT !.fan_error_name = None]
              ELSE s
    IN  IF s1.printing_state \notin {"FINISHED", "STOPPED"}
        THEN [s1 EXCEPT !.override_state = "ATTENTION"]
        ELSE s1

error_func(s) == [s EXCEPT !.override_state = "ERROR"]

error_resolved_func(s) ==
    IF s.override_state = "ERROR" /\ s.error_count = 0
    THEN [s EXCEPT !.override_state = None]
    ELSE s

serial_error_func(s) == [s EXCEPT !.override_state = "ERROR"]

serial_error_resolved_func(s) ==
    IF s.override_state = "ERROR"
    THEN [s EXCEPT !.override_state = None]
    ELSE s

\* func(self, *args, **kwargs) of the decorator, for the method named m
func(m, s) ==
    CASE m = "printing" -> printing_func(s)
      [] m = "not_printing" -> not_printing_func(s)
      [] m = "finished" -> finished_func(s)
      [] m = "busy" -> busy_func(s)
      [] m = "paused" -> paused_func(s)
      [] m = "resumed" -> resumed_func(s)
      [] m = "stopped" -> stopped_func(s)
      [] m = "instruction_confirmed" -> instruction_confirmed_func(s)
      [] m = "printer_checked" -> printer_checked_func(s)
      [] m = "attention" -> attention_func(s)
      [] m = "error" -> error_func(s)
      [] m = "error_resolved" -> error_resolved_func(s)
      [] m = "serial_error" -> serial_error_func(s)
      [] m = "serial_error_resolved" -> serial_error_resolved_func(s)

\* the wrapper of the state_influencer decorator around the method named m;
\* the state lock is held from its first to its last line
state_influencer(m, s) ==
    LET has_set_expected_change == s.expected_state_change = << >>
        s1 == IF has_set_expected_change
              THEN expect_change(s, DefaultChange(m)) ELSE s
        s2 == func(m, s1)
        s3 == state_may_have_changed(s2)
    IN  IF has_set_expected_change THEN stop_expecting_change(s3) ELSE s3

printing(s) == state_influencer("printing", s)

not_printing(s) == state_influencer("not_printing", s)

finished(s) == state_influencer("finished", s)

busy(s) == state_influencer("busy", s)

paused(s) == state_influencer("paused", s)

resumed(s) == state_influencer("resumed", s)

stopped(s) == state_influencer("stopped", s)

instruction_confirmed(s) == state_influencer("instruction_confirmed", s)

printer_checked(s) == state_influencer("printer_checked", s)

attention(s) == state_influencer("attention", s)

error(s) == state_influencer("error", s)

error_resolved(s) == state_influencer("error_resolved", s)

serial_error(s) == state_influencer("serial_error", s)

serial_error_resolved(s) == state_influencer("serial_error_resolved", s)

----------------------------------------------------------------------------
(* Methods that are not decorated *)

\* faulty variant: the error is not counted
link_error_detected_uncounted(s) == error(s)

link_error_detected(s) == error([s EXCEPT !.error_count = @ + 1])

link_error_resolved(s) ==
    LET s1 == [s EXCEPT !.error_count = @ - 1]
    IN  IF s1.error_count = 0 THEN error_resolved(s1) ELSE s1

\* ErrorState.ok = value: the callbacks registered in __init__ are called
\* when the flag changes
set_ok(s, state, value) ==
    IF s.ok[state] = value THEN s
    ELSE LET s1 == [s EXCEPT !.ok[state] = value]
         IN  IF value THEN link_error_resolved(s1)
             ELSE link_error_detected(s1)

file_printer_started_printing(s, file_printer_printing) ==
    IF file_printer_printing /\ s.printing_state # "PRINTING"
    THEN printing(s) ELSE s

stopped_or_not_printing(s) ==
    IF s.printing_state = "PRINTING" THEN stopped(s) ELSE not_printing(s)

reset(s) == stopped_or_not_printing(busy(set_ok(s, HW, TRUE)))

fan_error(s, fan_name) == [s EXCEPT !.fan_error_name = fan_name]

----------------------------------------------------------------------------
(* Error lines: the groups of a match of ERROR_REGEX (TRUE: not None) *)

NoGroups ==
    [stop |-> FALSE, kill |-> FALSE, temp |-> FALSE, mintemp |-> FALSE,
     maxtemp |-> FALSE, bed |-> FALSE, runaway |-> FALSE,
     hotend_runaway |-> FALSE, heatbed_runaway |-> FALSE,
     preheat_hotend |-> FALSE, preheat_heatbed |-> FALSE,
     bed_levelling |-> FALSE]

GenericLines == {[NoGroups EXCEPT !.stop = TRUE], [NoGroups EXCEPT !.kill = TRUE]}

SpecificLines ==
    {[NoGroups EXCEPT !.temp = TRUE, !.mintemp = TRUE, !.bed = TRUE]}

ErrorLines == GenericLines \cup SpecificLines

get_reason(groups) ==
    LET reason ==
          IF groups.temp
          THEN (IF groups.mintemp THEN "Mintemp"
                ELSE IF groups.maxtemp THEN "Maxtemp" ELSE "")
               \o " triggered by the "
               \o (IF groups.bed THEN "heatbed thermistor."
                   ELSE "hotend thermistor.")
          ELSE IF groups.runaway
          THEN (IF groups.hotend_runaway THEN "Hotend"
                ELSE IF groups.heatbed_runaway THEN "Heatbed"
                ELSE IF groups.preheat_hotend THEN "Hotend preheat"
                ELSE IF groups.preheat_heatbed THEN "Heatbed preheat"
                ELSE "")
               \o " thermal runaway."
          ELSE IF groups.bed_levelling
          THEN "Bed leveling failed. Sensor didn't trigger. "
               \o "Is there debris on the nozzle?"
          ELSE ""
    IN  reason \o " Manual restart required!"

\* error_reason_event.set(); error_reason_event.clear(): every waiter
\* thread that is waiting is woken
wake_waiters(s) ==
    [s EXCEPT !.waiters = [waiting |-> 0, woken |-> @.woken + @.waiting]]

\* the branch of error_handler that starts a waiter thread
starts_waiter(s, groups) ==
    (groups.stop \/ groups.kill) /\ s.override_state # "ERROR"

\* faulty variant: the state is set to ERROR without going through HW.ok
error_handler_direct(s, groups) ==
    LET s1 == wake_waiters(s)
    IN  IF starts_waiter(s1, groups)
        THEN [s1 EXCEPT !.awaiting_error_reason = TRUE,
                        !.waiters.waiting = @ + 1]
        ELSE error(expect_change(s1,
                        StateChange(NoId, Map1("ERROR", "MARLIN"), EmptyMap,
                                    None, get_reason(groups), FALSE)))

error_handler(s, groups) ==
    LET s1 == wake_waiters(s)
    IN  IF starts_waiter(s1, groups)
        THEN [s1 EXCEPT !.awaiting_error_reason = TRUE,
                        !.waiters.waiting = @ + 1]
        ELSE set_ok(expect_change(s1,
                        StateChange(NoId, Map1("ERROR", "MARLIN"), EmptyMap,
                                    None, get_reason(groups), FALSE)),
                    HW, FALSE)

\* error_reason_waiter when the wait timed out
error_reason_waiter_timeout(s) ==
    LET s1 == set_ok(expect_change(s,
                        StateChange(NoId, Map1("ERROR", "MARLIN"), EmptyMap,
                                    None, "404 Reason not found", FALSE)),
                     HW, FALSE)
    IN  [s1 EXCEPT !.awaiting_error_reason = FALSE, !.waiters.waiting = @ - 1]

\* error_reason_waiter when the event was set during the wait
error_reason_waiter_woken(s) ==
    [s EXCEPT !.awaiting_error_reason = FALSE, !.waiters.woken = @ - 1]

----------------------------------------------------------------------------
(* The state of the manager as a record, and back *)

SM ==
    [base_state |-> base_state, printing_state |-> printing_state,
     override_state |-> override_state, last_state |-> last_state,
     current_state |-> current_state, error_count |-> error_count,
     awaiting_error_reason |-> awaiting_error_reason,
     expected_state_change |-> expected_state_change,
     fan_error_name |-> fan_error_name,
     unsure_whether_printing |-> unsure_whether_printing,
     ok |-> ok, waiters |-> waiters, emitted |-> << >>]

\* the states a TryUntilState command hopes to get to; the state manager
\* never reports IDLE
desired_states(name) ==
    CASE name = "pause" -> {"PAUSED"}
      [] name = "resume" -> {"PRINTING"}
      [] name = "stop" -> {"STOPPED", "IDLE", "FINISHED"}
      [] OTHER -> {}

\* faulty variant: any state change sets right_state
state_changed_any(emitted_signals) ==
    \/ right_state
    \/ connected /\ emitted_signals # << >>

\* _try_until_state.state_changed, called by state_changed_signal.send
\* while it is connected
state_changed(emitted_signals) ==
    \/ right_state
    \/ /\ connected
       /\ \E i \in 1..Len(emitted_signals) :
                emitted_signals[i].to_state \in desired_states(cmd_name)

BecomesState(s) ==
    /\ base_state' = s.base_state
    /\ printing_state' = s.printing_state
    /\ override_state' = s.override_state
    /\ last_state' = s.last_state
    /\ current_state' = s.current_state
    /\ error_count' = s.error_count
    /\ awaiting_error_reason' = s.awaiting_error_reason
    /\ expected_state_change' = s.expected_state_change
    /\ fan_error_name' = s.fan_error_name
    /\ unsure_whether_printing' = s.unsure_whether_printing
    /\ ok' = s.ok
    /\ waiters' = s.waiters
    /\ emitted' = s.emitted
    /\ right_state' = state_changed(s.emitted)
    /\ UNCHANGED <<M0_after_prints, source_out, iu_vars, group_vars,
                   stop_vars, sd_vars>>

BecomesSM(s) == BecomesState(s) /\ UNCHANGED cmd_ctl

Becomes(s) == BecomesSM(s) /\ UNCHANGED conc_vars

\* the expected changes the commands register (command_handlers.py)
CallerChanges ==
    {StateChange(CommandId, Map1("PAUSED", "CONNECT"), EmptyMap, None, None, FALSE),
     StateChange(CommandId, EmptyMap, EmptyMap, "CONNECT", None, FALSE)}

----------------------------------------------------------------------------
(* Init: the state after StateManager.__init__ *)

\* no thread is inside error_handler, error_reason_waiter or a wrapper
NoThreads ==
    /\ state_lock = None
    /\ error_reason_event = FALSE
    /\ error_reason_thread = 0
    /\ waiter_pc = [i \in 1..MaxThreads |-> "idle"]
    /\ specific_seen = [i \in 1..MaxThreads |-> FALSE]
    /\ reader_pc = "idle"
    /\ reader_groups = NoGroups
    /\ mutator_pc = "idle"
    /\ mutator_method = None
    /\ wrapper_has_set = FALSE

RESET_PIN == 22

\* RESET_PIN of const.py and BCM 23, the pin that is wired to ground
ResetPins == {RESET_PIN, 23}

\* no command has been created
NoCommand ==
    /\ cmd_name = None
    /\ cmd_pc = "idle"
    /\ cmd_source = None
    /\ cmd_running = TRUE
    /\ right_state = FALSE
    /\ connected = FALSE
    /\ elapsed = 0
    /\ succeeded = FALSE
    /\ cmd_result = None
    /\ serial_out = << >>
    /\ file_printer = << >>
    /\ path_on_sd = FALSE
    /\ boot_handler = FALSE
    /\ boot_event = FALSE
    /\ reset_signal = None

\* the threads of ItemUpdater
Workers == {"refresher", "invalidator", "timeout"}

\* ItemUpdater.__init__: running is True, the events are clear, the threads
\* are created and not started
NewUpdater ==
    [running |-> TRUE,
     invalidate_queue_event |-> FALSE,
     timeout_queue_event |-> FALSE,
     thread |-> [w \in Workers |-> "new"],
     pc |-> [w \in Workers |-> "loop"],
     stop_pc |-> "idle",
     stop_calls |-> 0,
     stop_result |-> None]

\* IPCConsumer.__init__: running is False, there is no queue, the thread is
\* created and not started
NewConsumer ==
    [running |-> FALSE,
     ipc_queue |-> None,
     thread |-> "new",
     pc |-> "loop",
     stop_pc |-> "idle",
     stop_calls |-> 0,
     stop_result |-> None]

NoStop ==
    /\ updater = NewUpdater
    /\ consumer = NewConsumer

\* SDCard.__init__: nothing is expected, the tree is invalidated, the state
\* of the card is not known, there are no files (files is << >> for None and
\* <<tree>> for a tree) and no translations; update() has not been called and
\* no line is being handled
NewSD ==
    [expecting_insertion |-> FALSE,
     invalidated |-> TRUE,
     sd_state |-> "UNSURE",
     files |-> << >>,
     lfn_to_sfn_paths |-> {},
     sfn_to_lfn_paths |-> {},
     update_pc |-> "idle",
     update_new_state |-> None,
     update_return |-> None,
     handler_pc |-> "idle",
     handler_new_state |-> None,
     enqueued |-> None,
     sent |-> None,
     last_mount_signal |-> None]

NoSD ==
    /\ sd = NewSD
    /\ captured = << >>

\* math.inf: no deadline
inf == 1000

\* interval, on_fail_interval or timeout None
NoInterval == 0

\* a WatchedItem and an ItemUpdater after their __init__, the updater's
\* threads started
NewItem(interval, on_fail_interval, timeout) ==
    /\ watched = FALSE
    /\ item_valid = FALSE
    /\ item_value = None
    /\ item_scheduled = FALSE
    /\ item_invalidate_at = inf
    /\ item_times_out_at = inf
    /\ item_interval = interval
    /\ item_on_fail_interval = on_fail_interval
    /\ item_timeout = timeout
    /\ refresh_queue = << >>
    /\ invalidate_timers = << >>
    /\ timeout_timers = << >>
    /\ now = 0
    /\ refresher_pc = "idle"
    /\ invalidator_pc = "idle"
    /\ invalidator_timer = inf
    /\ timeout_pc = "idle"
    /\ timeout_timer = inf
    /\ signals = << >>
    /\ gather_stale = FALSE
    /\ value_stale = FALSE

\* WatchedGroup.all_items
Members == {"a", "b"}

\* a WatchedGroup after its __init__ over members with the given valid flags
NewGroup(valid) ==
    /\ member_valid = valid
    /\ valid_items = {item \in Members : valid[item]}
    /\ invalid_items = {item \in Members : ~valid[item]}
    /\ group_valid = ({item \in Members : ~valid[item]} = {})
    /\ handler_pc = [item \in Members |-> "idle"]
    /\ group_signal = None

\* a group of items that have no value yet
NoGroup == NewGroup([item \in Members |-> FALSE])

\* no item is watched
NoItems == NewItem(NoInterval, NoInterval, NoInterval) /\ NoGroup

\* the state manager and the objects around it after construction
NewManager ==
    /\ base_state = "BUSY"
    /\ printing_state = None
    /\ override_state = None
    /\ last_state = "BUSY"
    /\ current_state = "BUSY"
    /\ ok \in [ErrorStates -> BOOLEAN]
    /\ error_count = Cardinality({state \in ErrorStates : ~ok[state]})
    /\ awaiting_error_reason = FALSE
    /\ expected_state_change = << >>
    /\ fan_error_name = None
    /\ unsure_whether_printing = TRUE
    /\ waiters = [waiting |-> 0, woken |-> 0]
    /\ M0_after_prints \in BOOLEAN
    /\ emitted = << >>
    /\ source_out = "unset"
    /\ NoThreads
    /\ NoCommand
    /\ NoStop

InitManager == NewManager /\ NoSD

Init == InitManager /\ NoItems /\ reset_pin = RESET_PIN

----------------------------------------------------------------------------
(* Actions: one per handler *)

Busy == Becomes(busy(SM))

Attention == Becomes(attention(SM))

Paused == Becomes(paused(SM))

Resumed == Becomes(resumed(SM))

StoppedOrNotPrinting == Becomes(stopped_or_not_printing(SM))

Printing == Becomes(printing(SM))

Finished == Becomes(finished(SM))

Stopped == Becomes(stopped(SM))

NotPrinting == Becomes(not_printing(SM))

InstructionConfirmed == Becomes(instruction_confirmed(SM))

PrinterChecked == Becomes(printer_checked(SM))

SerialError == Becomes(serial_error(SM))

SerialErrorResolved == Becomes(serial_error_resolved(SM))

Reset == Becomes(reset(SM))

FilePrinterStartedPrinting ==
    \E file_printer_printing \in BOOLEAN :
        Becomes(file_printer_started_printing(SM, file_printer_printing))

FanError == \E fan_name \in FanNames : Becomes(fan_error(SM, fan_name))

\* a handler that starts a thread runs only while fewer than MaxWaiters
\* waiter threads are alive
ErrorHandler ==
    \E groups \in ErrorLines :
        /\ starts_waiter(SM, groups) =>
               waiters.waiting + waiters.woken < MaxWaiters
        /\ Becomes(error_handler(SM, groups))

ErrorReasonWaiterTimeout ==
    /\ waiters.waiting > 0
    /\ Becomes(error_reason_waiter_timeout(SM))

ErrorReasonWaiterWoken ==
    /\ waiters.woken > 0
    /\ Becomes(error_reason_waiter_woken(SM))

\* an error state other than HW changes its ok flag
LinkErrorChanged ==
    \E state \in LinkErrors, value \in BOOLEAN :
        /\ ok[state] # value
        /\ Becomes(set_ok(SM, state, value))

ExpectChange == \E change \in CallerChanges : Becomes(expect_change(SM, change))

StopExpectingChange == Becomes(stop_expecting_change(SM))

Next ==
    \/ Busy
    \/ Attention
    \/ Paused
    \/ Resumed
    \/ StoppedOrNotPrinting
    \/ Printing
    \/ Finished
    \/ Stopped
    \/ NotPrinting
    \/ InstructionConfirmed
    \/ PrinterChecked
    \/ SerialError
    \/ SerialErrorResolved
    \/ Reset
    \/ FilePrinterStartedPrinting
    \/ FanError
    \/ ErrorHandler
    \/ ErrorReasonWaiterTimeout
    \/ ErrorReasonWaiterWoken
    \/ LinkErrorChanged
    \/ ExpectChange
    \/ StopExpectingChange

Spec == Init /\ [][Next]_vars

----------------------------------------------------------------------------
(* SpecConc: the threads of the state manager, step by step.               *)
(*                                                                         *)
(* reader:  the serial reader thread inside error_handler                  *)
(* waiters: the error_reason_waiter threads 1..MaxThreads                  *)
(* mutator: a thread inside the wrapper of a decorated method              *)
(* callers: expect_change / stop_expecting_change of the command handlers  *)
(*                                                                         *)
(* threading.Event: wait() returns True at once when the flag is set,      *)
(* otherwise the thread blocks; set() sets the flag and notifies every     *)
(* blocked thread, which then returns True whatever the flag is by then;   *)
(* clear() resets the flag.                                                *)

\* the decorated methods the mutator thread calls
MutatorMethods == {"attention", "busy"}

\* HW.ok = False: when the flag changes link_error_detected runs, and its
\* call of error() takes the state lock
CanSetHwNotOk == ok[HW] => state_lock = None

\* error_handler: self.error_reason_event.set()
ReaderSet ==
    /\ reader_pc = "idle"
    /\ \E groups \in ErrorLines :
        /\ reader_groups' = groups
        /\ specific_seen' =
              [i \in 1..MaxThreads |->
                  specific_seen[i] \/ (/\ waiter_pc[i] \in {"started", "waiting"}
                                       /\ groups \in SpecificLines)]
    /\ reader_pc' = "clear"
    /\ error_reason_event' = TRUE
    /\ waiter_pc' = [i \in 1..MaxThreads |->
                        IF waiter_pc[i] = "waiting" THEN "finish"
                        ELSE waiter_pc[i]]
    /\ BecomesSM(SM)
    /\ UNCHANGED <<state_lock, error_reason_thread,
                   mutator_pc, mutator_method, wrapper_has_set>>

\* error_handler: self.error_reason_event.clear()
ReaderClear ==
    /\ reader_pc = "clear"
    /\ reader_pc' = "branch"
    /\ error_reason_event' = FALSE
    /\ BecomesSM(SM)
    /\ UNCHANGED <<state_lock, error_reason_thread, waiter_pc, specific_seen,
                   reader_groups, mutator_pc, mutator_method,
                   wrapper_has_set>>

\* error_handler: the if; either the waiter thread is started or the
\* expected change with the parsed reason is registered
ReaderBranch ==
    /\ reader_pc = "branch"
    /\ IF starts_waiter(SM, reader_groups)
       THEN \E i \in 1..MaxThreads :
                /\ waiter_pc[i] = "idle"
                /\ waiter_pc' = [waiter_pc EXCEPT ![i] = "started"]
                /\ specific_seen' = [specific_seen EXCEPT ![i] = FALSE]
                /\ error_reason_thread' = i
                /\ reader_pc' = "idle"
                /\ BecomesSM([SM EXCEPT !.awaiting_error_reason = TRUE])
       ELSE /\ reader_pc' = "set_ok"
            /\ BecomesSM(expect_change(SM,
                    StateChange(NoId, Map1("ERROR", "MARLIN"), EmptyMap,
                                None, get_reason(reader_groups), FALSE)))
            /\ UNCHANGED <<waiter_pc, specific_seen, error_reason_thread>>
    /\ UNCHANGED <<state_lock, error_reason_event, reader_groups,
                   mutator_pc, mutator_method, wrapper_has_set>>

\* error_handler: HW.ok = False
ReaderSetOk ==
    /\ reader_pc = "set_ok"
    /\ CanSetHwNotOk
    /\ reader_pc' = "idle"
    /\ BecomesSM(set_ok(SM, HW, FALSE))
    /\ UNCHANGED <<state_lock, error_reason_event, error_reason_thread,
                   waiter_pc, specific_seen, reader_groups,
                   mutator_pc, mutator_method, wrapper_has_set>>

\* error_reason_waiter: the thread reaches error_reason_event.wait
WaiterEnter(i) ==
    /\ waiter_pc[i] = "started"
    /\ waiter_pc' = [waiter_pc EXCEPT ![i] =
                        IF error_reason_event THEN "finish" ELSE "waiting"]
    /\ BecomesSM(SM)
    /\ UNCHANGED <<state_lock, error_reason_event, error_reason_thread,
                   specific_seen, reader_pc, reader_groups,
                   mutator_pc, mutator_method, wrapper_has_set>>

\* error_reason_waiter: the wait returns False after ERROR_REASON_TIMEOUT
WaiterTimeout(i) ==
    /\ waiter_pc[i] = "waiting"
    /\ waiter_pc' = [waiter_pc EXCEPT ![i] = "timed_out"]
    /\ BecomesSM(SM)
    /\ UNCHANGED <<state_lock, error_reason_event, error_reason_thread,
                   specific_seen, reader_pc, reader_groups,
                   mutator_pc, mutator_method, wrapper_has_set>>

\* error_reason_waiter: expect_change with "404 Reason not found"
WaiterExpect(i) ==
    /\ waiter_pc[i] = "timed_out"
    /\ waiter_pc' = [waiter_pc EXCEPT ![i] = "set_ok"]
    /\ BecomesSM(expect_change(SM,
            StateChange(NoId, Map1("ERROR", "MARLIN"), EmptyMap,
                        None, "404 Reason not found", FALSE)))
    /\ UNCHANGED <<state_lock, error_reason_event, error_reason_thread,
                   specific_seen, reader_pc, reader_groups,
                   mutator_pc, mutator_method, wrapper_has_set>>

\* error_reason_waiter: HW.ok = False
WaiterSetOk(i) ==
    /\ waiter_pc[i] = "set_ok"
    /\ CanSetHwNotOk
    /\ waiter_pc' = [waiter_pc EXCEPT ![i] = "finish"]
    /\ BecomesSM(set_ok(SM, HW, FALSE))
    /\ UNCHANGED <<state_lock, error_reason_event, error_reason_thread,
                   specific_seen, reader_pc, reader_groups,
                   mutator_pc, mutator_method, wrapper_has_set>>

\* error_reason_waiter: self.data.awaiting_error_reason = False
WaiterFinish(i) ==
    /\ waiter_pc[i] = "finish"
    /\ waiter_pc' = [waiter_pc EXCEPT ![i] = "idle"]
    /\ BecomesSM([SM EXCEPT !.awaiting_error_reason = FALSE])
    /\ UNCHANGED <<state_lock, error_reason_event, error_reason_thread,
                   specific_seen, reader_pc, reader_groups,
                   mutator_pc, mutator_method, wrapper_has_set>>

\* wrapper: with self.state_lock, and the default expected change
MutatorAcquire ==
    /\ mutator_pc = "idle"
    /\ state_lock = None
    /\ state_lock' = "mutator"
    /\ \E m \in MutatorMethods :
        /\ mutator_method' = m
        /\ wrapper_has_set' = (expected_state_change = << >>)
        /\ BecomesSM(IF expected_state_change = << >>
                     THEN expect_change(SM, DefaultChange(m)) ELSE SM)
    /\ mutator_pc' = "func"
    /\ UNCHANGED <<error_reason_event, error_reason_thread, waiter_pc,
                   specific_seen, reader_pc, reader_groups>>

\* wrapper: func(self, *args, **kwargs)
MutatorFunc ==
    /\ mutator_pc = "func"
    /\ mutator_pc' = "changed"
    /\ BecomesSM(func(mutator_method, SM))
    /\ UNCHANGED <<state_lock, error_reason_event, error_reason_thread,
                   waiter_pc, specific_seen, reader_pc, reader_groups,
                   mutator_method, wrapper_has_set>>

\* wrapper: self.state_may_have_changed()
MutatorChanged ==
    /\ mutator_pc = "changed"
    /\ mutator_pc' = "release"
    /\ BecomesSM(state_may_have_changed(SM))
    /\ UNCHANGED <<state_lock, error_reason_event, error_reason_thread,
                   waiter_pc, specific_seen, reader_pc, reader_groups,
                   mutator_method, wrapper_has_set>>

\* wrapper: stop_expecting_change if wrapper_has_set, and the end
\* of the with block
MutatorRelease ==
    /\ mutator_pc = "release"
    /\ mutator_pc' = "idle"
    /\ state_lock' = None
    /\ mutator_method' = None
    /\ wrapper_has_set' = FALSE
    /\ BecomesSM(IF wrapper_has_set
                 THEN stop_expecting_change(SM) ELSE SM)
    /\ UNCHANGED <<error_reason_event, error_reason_thread, waiter_pc,
                   specific_seen, reader_pc, reader_groups>>

NextConc ==
    \/ ReaderSet
    \/ ReaderClear
    \/ ReaderBranch
    \/ ReaderSetOk
    \/ \E i \in 1..MaxThreads : WaiterEnter(i)
    \/ \E i \in 1..MaxThreads : WaiterTimeout(i)
    \/ \E i \in 1..MaxThreads : WaiterExpect(i)
    \/ \E i \in 1..MaxThreads : WaiterSetOk(i)
    \/ \E i \in 1..MaxThreads : WaiterFinish(i)
    \/ MutatorAcquire
    \/ MutatorFunc
    \/ MutatorChanged
    \/ MutatorRelease
    \/ ExpectChange
    \/ StopExpectingChange

\* the state after __init__ when every error state is ok
InitConc ==
    /\ Init
    /\ ok = [state \in ErrorStates |-> TRUE]
    /\ M0_after_prints

SpecConc == InitConc /\ [][NextConc]_vars

\* the serial reader thread and the waiter threads alone
NextWaiters ==
    \/ ReaderSet
    \/ ReaderClear
    \/ ReaderBranch
    \/ ReaderSetOk
    \/ \E i \in 1..MaxThreads : WaiterEnter(i)
    \/ \E i \in 1..MaxThreads : WaiterTimeout(i)
    \/ \E i \in 1..MaxThreads : WaiterExpect(i)
    \/ \E i \in 1..MaxThreads : WaiterSetOk(i)
    \/ \E i \in 1..MaxThreads : WaiterFinish(i)

SpecWaiters == InitConc /\ [][NextWaiters]_vars

----------------------------------------------------------------------------
(* SpecSource: get_expected_source on every expected change and every      *)
(* pair of last and current state drawn from small sets                    *)

SourceKeys == {"ERROR", "READY"}

SourceValues == {None, "USER", "MARLIN"}

\* the dictionaries over SourceKeys, a key being absent, None or a source
SourceMaps ==
    {dict \in SUBSET (SourceKeys \X SourceValues) :
        \A p \in dict, q \in dict : p[1] = q[1] => p = q}

SourceChanges ==
    {StateChange(NoId, to_states, from_states, default_source, None, FALSE) :
        to_states \in SourceMaps, from_states \in SourceMaps,
        default_source \in {None, "CONNECT"}}

InitSource ==
    /\ base_state = "BUSY"
    /\ printing_state = None
    /\ override_state = None
    /\ last_state \in SourceKeys \cup {"BUSY"}
    /\ current_state \in SourceKeys \cup {"BUSY"}
    /\ ok = [state \in ErrorStates |-> TRUE]
    /\ error_count = 0
    /\ awaiting_error_reason = FALSE
    /\ expected_state_change \in {<<change>> : change \in SourceChanges}
    /\ fan_error_name = None
    /\ unsure_whether_printing = TRUE
    /\ waiters = [waiting |-> 0, woken |-> 0]
    /\ M0_after_prints = TRUE
    /\ emitted = << >>
    /\ source_out = "unset"
    /\ NoThreads
    /\ NoItems
    /\ NoCommand
    /\ NoStop
    /\ NoSD
    /\ reset_pin = RESET_PIN

GetExpectedSource ==
    /\ source_out = "unset"
    /\ source_out' = get_expected_source(SM)
    /\ UNCHANGED <<base_state, printing_state, override_state, last_state,
                   current_state, error_count, awaiting_error_reason,
                   expected_state_change, fan_error_name,
                   unsure_whether_printing, ok, waiters, M0_after_prints,
                   emitted, conc_vars, iu_vars, group_vars, cmd_vars,
                   stop_vars, sd_vars>>

NextSource == GetExpectedSource

SpecSource == InitSource /\ [][NextSource]_vars

----------------------------------------------------------------------------
(* Part 2: the ItemUpdater with one watched item.                          *)
(*                                                                         *)
(* The methods are operators on a record u of the item's fields and the    *)
(* updater's queues.  Every method that takes item.lock is one step; the   *)
(* refresher, the invalidator and the timeout thread take one step per     *)
(* statement they run outside the lock.                                    *)

\* the values the gather function returns or a caller sets
Values == {"v1", "bad"}

\* item.validation_function
validation_function(value) == value # "bad"

\* the intervals of the item
Intervals == {NoInterval, 2}

\* the retry intervals of the item
OnFailIntervals == {NoInterval, 1}

\* the timeouts of the item
Timeouts == {NoInterval, 2}

\* PriorityQueue.put for the deadlines of the one item
RECURSIVE Put(_, _)
Put(queue, deadline) ==
    IF queue = << >> \/ deadline < Head(queue)
    THEN <<deadline>> \o queue
    ELSE <<Head(queue)>> \o Put(Tail(queue), deadline)

IU ==
    [valid |-> item_valid, value |-> item_value,
     scheduled |-> item_scheduled, invalidate_at |-> item_invalidate_at,
     times_out_at |-> item_times_out_at, refresh_queue |-> refresh_queue,
     invalidate_timers |-> invalidate_timers,
     timeout_timers |-> timeout_timers, signals |-> << >>]

send(u, signal) == [u EXCEPT !.signals = Append(@, signal)]

_enqueue_refresh(u) ==
    LET u1 == IF item_timeout # NoInterval /\ u.times_out_at = inf
              THEN [u EXCEPT !.times_out_at = now + item_timeout,
                             !.timeout_timers = Put(@, now + item_timeout)]
              ELSE u
    IN  [u1 EXCEPT !.scheduled = TRUE,
                   !.refresh_queue = Append(@, "item")]

\* faulty variant: the refresh is enqueued without looking at scheduled
invalidate_enqueues_always(u) ==
    LET u1 == [u EXCEPT !.invalidate_at = inf]
        u2 == IF u1.valid
              THEN send([u1 EXCEPT !.valid = FALSE], "became_invalid")
              ELSE u1
    IN  _enqueue_refresh(u2)

invalidate(u) ==
    LET u1 == [u EXCEPT !.invalidate_at = inf]
        u2 == IF u1.valid
              THEN send([u1 EXCEPT !.valid = FALSE], "became_invalid")
              ELSE u1
    IN  IF ~u2.scheduled THEN _enqueue_refresh(u2) ELSE u2

\* faulty variant: the deadline is kept in the item, no timer is queued
schedule_invalidation_no_timer(u, interval, force) ==
    IF u.invalidate_at # inf /\ ~force THEN u
    ELSE LET i == IF interval = NoInterval THEN item_interval ELSE interval
         IN  IF i = NoInterval THEN u
             ELSE [u EXCEPT !.invalidate_at = now + i]

\* with no interval given and none in the item AttributeError is raised
\* before anything is written
schedule_invalidation(u, interval, force) ==
    IF u.invalidate_at # inf /\ ~force THEN u
    ELSE LET i == IF interval = NoInterval THEN item_interval ELSE interval
         IN  IF i = NoInterval THEN u
             ELSE [u EXCEPT !.invalidate_at = now + i,
                            !.invalidate_timers = Put(@, now + i)]

cancel_scheduled_invalidation(u) == [u EXCEPT !.invalidate_at = inf]

_time_out(u) ==
    send(send([u EXCEPT !.times_out_at = inf], "timed_out"),
         "val_err_timeout")

\* faulty variant: the item is made valid when the retry is scheduled
_gather_error_reschedule_valid(u) ==
    IF item_on_fail_interval # NoInterval
    THEN [schedule_invalidation(u, item_on_fail_interval, FALSE)
          EXCEPT !.valid = TRUE]
    ELSE u

_gather_error_reschedule(u) ==
    IF item_on_fail_interval # NoInterval
    THEN schedule_invalidation(u, item_on_fail_interval, FALSE)
    ELSE u

\* faulty variant: became_valid is sent for every value that is set
_set_value_signals_always(u, value) ==
    LET changed == value # u.value
        u1 == [u EXCEPT !.value = value, !.valid = TRUE,
                        !.times_out_at = inf]
        u2 == IF item_interval # NoInterval
              THEN schedule_invalidation(u1, NoInterval, TRUE) ELSE u1
        u3 == send(u2, "became_valid")
    IN  IF changed THEN send(u3, "value_changed") ELSE u3

_set_value(u, value) ==
    LET changed == value # u.value
        was_invalid == ~u.valid
        u1 == [u EXCEPT !.value = value, !.valid = TRUE,
                        !.times_out_at = inf]
        u2 == IF item_interval # NoInterval
              THEN schedule_invalidation(u1, NoInterval, TRUE) ELSE u1
        u3 == IF was_invalid THEN send(u2, "became_valid") ELSE u2
    IN  IF changed THEN send(u3, "value_changed") ELSE u3

set_value(u, value) ==
    IF ~validation_function(value)
    THEN _gather_error_reschedule(
            send(send(u, "validation_error"), "val_err_timeout"))
    ELSE _set_value(u, value)

\* _gather after gather_function has raised
_gather_failed(u) ==
    _gather_error_reschedule(
        send(send(u, "error_refreshing"), "val_err_timeout"))

BecomesIU(u) ==
    /\ item_valid' = u.valid
    /\ item_value' = u.value
    /\ item_scheduled' = u.scheduled
    /\ item_invalidate_at' = u.invalidate_at
    /\ item_times_out_at' = u.times_out_at
    /\ refresh_queue' = u.refresh_queue
    /\ invalidate_timers' = u.invalidate_timers
    /\ timeout_timers' = u.timeout_timers
    /\ signals' = u.signals
    /\ UNCHANGED <<item_interval, item_on_fail_interval, item_timeout,
                   sm_vars, conc_vars, group_vars, cmd_vars, stop_vars, sd_vars>>

\* a step is taken only while the timer queues stay within MaxTimers
Bounded(u) ==
    /\ Len(u.invalidate_timers) <= MaxTimers
    /\ Len(u.timeout_timers) <= MaxTimers

thread_vars == <<refresher_pc, invalidator_pc, invalidator_timer,
                 timeout_pc, timeout_timer>>

\* invalidate() was called while gather_function is running
StaleAfterInvalidate == gather_stale \/ refresher_pc = "gathering"

\* the value is written by a caller of set_value
StaleAfterSetValue(value) ==
    IF validation_function(value) THEN FALSE ELSE value_stale

AddWatchedItem ==
    /\ ~watched
    /\ Bounded(invalidate(IU))
    /\ watched' = TRUE
    /\ BecomesIU(invalidate(IU))
    /\ gather_stale' = StaleAfterInvalidate
    /\ UNCHANGED <<now, thread_vars, value_stale>>

Invalidate ==
    /\ watched
    /\ Bounded(invalidate(IU))
    /\ BecomesIU(invalidate(IU))
    /\ gather_stale' = StaleAfterInvalidate
    /\ UNCHANGED <<watched, now, thread_vars, value_stale>>

SetValue ==
    /\ watched
    /\ \E value \in Values :
        /\ Bounded(set_value(IU, value))
        /\ BecomesIU(set_value(IU, value))
        /\ value_stale' = StaleAfterSetValue(value)
    /\ UNCHANGED <<watched, now, thread_vars, gather_stale>>

ScheduleInvalidation ==
    /\ watched
    /\ \E interval \in {NoInterval, 1}, force \in BOOLEAN :
        /\ Bounded(schedule_invalidation(IU, interval, force))
        /\ BecomesIU(schedule_invalidation(IU, interval, force))
    /\ UNCHANGED <<watched, now, thread_vars, gather_stale, value_stale>>

CancelScheduledInvalidation ==
    /\ watched
    /\ BecomesIU(cancel_scheduled_invalidation(IU))
    /\ UNCHANGED <<watched, now, thread_vars, gather_stale, value_stale>>

\* time passes
Tick ==
    /\ now < MaxTime
    /\ now' = now + 1
    /\ BecomesIU(IU)
    /\ UNCHANGED <<watched, thread_vars, gather_stale, value_stale>>

\* _refresher: item = self.refresh_queue.get(...)
RefresherGet ==
    /\ refresher_pc = "idle"
    /\ refresh_queue # << >>
    /\ refresher_pc' = "got"
    /\ BecomesIU([IU EXCEPT !.refresh_queue = Tail(@)])
    /\ UNCHANGED <<watched, now, invalidator_pc, invalidator_timer,
                   timeout_pc, timeout_timer, gather_stale, value_stale>>

\* _refresher: with item.lock: item.scheduled = False
RefresherUnschedule ==
    /\ refresher_pc = "got"
    /\ refresher_pc' = "gather"
    /\ BecomesIU([IU EXCEPT !.scheduled = FALSE])
    /\ UNCHANGED <<watched, now, invalidator_pc, invalidator_timer,
                   timeout_pc, timeout_timer, gather_stale, value_stale>>

\* _gather: if item.valid: return; otherwise gather_function is called
GatherStart ==
    /\ refresher_pc = "gather"
    /\ refresher_pc' = IF item_valid THEN "idle" ELSE "gathering"
    /\ gather_stale' = FALSE
    /\ BecomesIU(IU)
    /\ UNCHANGED <<watched, now, invalidator_pc, invalidator_timer,
                   timeout_pc, timeout_timer, value_stale>>

\* _gather: gather_function has returned a value, set_value is called
GatherReturns ==
    /\ refresher_pc = "gathering"
    /\ refresher_pc' = "idle"
    /\ \E value \in Values :
        /\ Bounded(set_value(IU, value))
        /\ BecomesIU(set_value(IU, value))
        /\ value_stale' = IF validation_function(value)
                          THEN gather_stale ELSE value_stale
    /\ UNCHANGED <<watched, now, invalidator_pc, invalidator_timer,
                   timeout_pc, timeout_timer, gather_stale>>

\* _gather: gather_function has raised
GatherRaises ==
    /\ refresher_pc = "gathering"
    /\ refresher_pc' = "idle"
    /\ Bounded(_gather_failed(IU))
    /\ BecomesIU(_gather_failed(IU))
    /\ UNCHANGED <<watched, now, invalidator_pc, invalidator_timer,
                   timeout_pc, timeout_timer, gather_stale, value_stale>>

\* _process_invalidations: invalidate_at, item = self.invalidate_timers.get
InvalidatorGet ==
    /\ invalidator_pc = "idle"
    /\ invalidate_timers # << >>
    /\ invalidator_pc' = "got"
    /\ invalidator_timer' = Head(invalidate_timers)
    /\ BecomesIU([IU EXCEPT !.invalidate_timers = Tail(@)])
    /\ UNCHANGED <<watched, now, refresher_pc, timeout_pc, timeout_timer,
                   gather_stale, value_stale>>

\* _process_invalidations: the timer is compared with item.invalidate_at
\* and with time(); a timer that is not due is put back and the thread
\* sleeps until it looks again
InvalidatorCheck ==
    /\ invalidator_pc = "got"
    /\ IF invalidator_timer # item_invalidate_at
       THEN /\ invalidator_pc' = "idle"
            /\ invalidator_timer' = inf
            /\ BecomesIU(IU)
       ELSE IF invalidator_timer > now
       THEN /\ invalidator_pc' = "idle"
            /\ invalidator_timer' = inf
            /\ BecomesIU([IU EXCEPT !.invalidate_timers =
                                        Put(@, invalidator_timer)])
       ELSE /\ invalidator_pc' = "invalidate"
            /\ UNCHANGED invalidator_timer
            /\ BecomesIU(IU)
    /\ UNCHANGED <<watched, now, refresher_pc, timeout_pc, timeout_timer,
                   gather_stale, value_stale>>

\* _process_invalidations: self.invalidate(item)
InvalidatorInvalidate ==
    /\ invalidator_pc = "invalidate"
    /\ Bounded(invalidate(IU))
    /\ invalidator_pc' = "idle"
    /\ invalidator_timer' = inf
    /\ BecomesIU(invalidate(IU))
    /\ gather_stale' = StaleAfterInvalidate
    /\ UNCHANGED <<watched, now, refresher_pc, timeout_pc, timeout_timer,
                   value_stale>>

\* _process_timeouts: times_out_at, item = self.timeout_timers.get
TimeoutGet ==
    /\ timeout_pc = "idle"
    /\ timeout_timers # << >>
    /\ timeout_pc' = "got"
    /\ timeout_timer' = Head(timeout_timers)
    /\ BecomesIU([IU EXCEPT !.timeout_timers = Tail(@)])
    /\ UNCHANGED <<watched, now, refresher_pc, invalidator_pc,
                   invalidator_timer, gather_stale, value_stale>>

\* _process_timeouts: the timer is compared with item.times_out_at and
\* with time(); a timer that is not due is put back and the thread sleeps
\* until it looks again
TimeoutCheck ==
    /\ timeout_pc = "got"
    /\ IF timeout_timer # item_times_out_at
       THEN /\ timeout_pc' = "idle"
            /\ timeout_timer' = inf
            /\ BecomesIU(IU)
       ELSE IF timeout_timer > now
       THEN /\ timeout_pc' = "idle"
            /\ timeout_timer' = inf
            /\ BecomesIU([IU EXCEPT !.timeout_timers =
                                        Put(@, timeout_timer)])
       ELSE /\ timeout_pc' = "time_out"
            /\ UNCHANGED timeout_timer
            /\ BecomesIU(IU)
    /\ UNCHANGED <<watched, now, refresher_pc, invalidator_pc,
                   invalidator_timer, gather_stale, value_stale>>

\* _process_timeouts: self._time_out(item)
TimeoutTimeOut ==
    /\ timeout_pc = "time_out"
    /\ timeout_pc' = "idle"
    /\ timeout_timer' = inf
    /\ BecomesIU(_time_out(IU))
    /\ UNCHANGED <<watched, now, refresher_pc, invalidator_pc,
                   invalidator_timer, gather_stale, value_stale>>

NextItems ==
    \/ AddWatchedItem
    \/ Invalidate
    \/ SetValue
    \/ ScheduleInvalidation
    \/ CancelScheduledInvalidation
    \/ Tick
    \/ RefresherGet
    \/ RefresherUnschedule
    \/ GatherStart
    \/ GatherReturns
    \/ GatherRaises
    \/ InvalidatorGet
    \/ InvalidatorCheck
    \/ InvalidatorInvalidate

\* an item without a timeout
InitItems ==
    /\ InitManager
    /\ reset_pin = RESET_PIN
    /\ ok = [state \in ErrorStates |-> TRUE]
    /\ M0_after_prints
    /\ \E interval \in Intervals, on_fail_interval \in OnFailIntervals :
            NewItem(interval, on_fail_interval, NoInterval)
    /\ NoGroup

SpecItems == InitItems /\ [][NextItems]_vars

\* the invalidator thread keeps running its loop
FairItems ==
    /\ SpecItems
    /\ WF_vars(InvalidatorGet)
    /\ WF_vars(InvalidatorCheck)
    /\ WF_vars(InvalidatorInvalidate)

\* an item with a timeout and no intervals: the refresher and the timeout
\* thread
NextTimeouts ==
    \/ AddWatchedItem
    \/ Invalidate
    \/ SetValue
    \/ Tick
    \/ RefresherGet
    \/ RefresherUnschedule
    \/ GatherStart
    \/ GatherReturns
    \/ GatherRaises
    \/ TimeoutGet
    \/ TimeoutCheck
    \/ TimeoutTimeOut

InitTimeouts ==
    /\ InitManager
    /\ reset_pin = RESET_PIN
    /\ ok = [state \in ErrorStates |-> TRUE]
    /\ M0_after_prints
    /\ \E timeout \in Timeouts \ {NoInterval} :
            NewItem(NoInterval, NoInterval, timeout)
    /\ NoGroup

SpecTimeouts == InitTimeouts /\ [][NextTimeouts]_vars

----------------------------------------------------------------------------
(* WatchedGroup: every member is changed by a thread of its own, which
   holds the member's item.lock while the member's signal runs the group's
   handler; the group has no lock, so the handlers of different members
   interleave *)

GroupStep(item, pc) ==
    /\ handler_pc' = [handler_pc EXCEPT ![item] = pc]
    /\ UNCHANGED <<sm_vars, conc_vars, iu_vars, cmd_vars, stop_vars, sd_vars>>

\* invalidate: item.valid = False, became_invalid_signal.send(item)
MemberInvalidate(item) ==
    /\ handler_pc[item] = "idle"
    /\ member_valid[item]
    /\ member_valid' = [member_valid EXCEPT ![item] = FALSE]
    /\ GroupStep(item, "_invalid_handler")
    /\ UNCHANGED <<group_valid, valid_items, invalid_items, group_signal>>

\* _invalid_handler: valid_items.remove(item), invalid_items.add(item)
InvalidHandlerMove(item) ==
    /\ handler_pc[item] = "_invalid_handler"
    /\ valid_items' = valid_items \ {item}
    /\ invalid_items' = invalid_items \cup {item}
    /\ GroupStep(item, "invalid_moved")
    /\ UNCHANGED <<member_valid, group_valid, group_signal>>

\* _invalid_handler: if self.valid
InvalidHandlerCheck(item) ==
    /\ handler_pc[item] = "invalid_moved"
    /\ GroupStep(item, IF group_valid THEN "invalid_send" ELSE "idle")
    /\ UNCHANGED <<member_valid, group_valid, valid_items, invalid_items,
                   group_signal>>

\* _invalid_handler: became_invalid_signal.send(self), self.valid = False
InvalidHandlerSend(item) ==
    /\ handler_pc[item] = "invalid_send"
    /\ group_signal' = "became_invalid"
    /\ group_valid' = FALSE
    /\ GroupStep(item, "idle")
    /\ UNCHANGED <<member_valid, valid_items, invalid_items>>

\* _set_value: item.valid = True, became_valid_signal.send(item)
MemberValidate(item) ==
    /\ handler_pc[item] = "idle"
    /\ ~member_valid[item]
    /\ member_valid' = [member_valid EXCEPT ![item] = TRUE]
    /\ GroupStep(item, "_valid_handler")
    /\ UNCHANGED <<group_valid, valid_items, invalid_items, group_signal>>

\* _valid_handler: invalid_items.remove(item), valid_items.add(item)
ValidHandlerMove(item) ==
    /\ handler_pc[item] = "_valid_handler"
    /\ invalid_items' = invalid_items \ {item}
    /\ valid_items' = valid_items \cup {item}
    /\ GroupStep(item, "valid_moved")
    /\ UNCHANGED <<member_valid, group_valid, group_signal>>

\* _valid_handler: if not self.valid and not self.invalid_items
ValidHandlerCheck(item) ==
    /\ handler_pc[item] = "valid_moved"
    /\ GroupStep(item, IF ~group_valid /\ invalid_items = {}
                       THEN "valid_send" ELSE "idle")
    /\ UNCHANGED <<member_valid, group_valid, valid_items, invalid_items,
                   group_signal>>

\* _valid_handler: became_valid_signal.send(self), self.valid = True
ValidHandlerSend(item) ==
    /\ handler_pc[item] = "valid_send"
    /\ group_signal' = "became_valid"
    /\ group_valid' = TRUE
    /\ GroupStep(item, "idle")
    /\ UNCHANGED <<member_valid, valid_items, invalid_items>>

NextGroup ==
    \E item \in Members :
        \/ MemberInvalidate(item)
        \/ InvalidHandlerMove(item)
        \/ InvalidHandlerCheck(item)
        \/ InvalidHandlerSend(item)
        \/ MemberValidate(item)
        \/ ValidHandlerMove(item)
        \/ ValidHandlerCheck(item)
        \/ ValidHandlerSend(item)

\* a group built over members of any validity
InitGroup ==
    /\ InitManager
    /\ reset_pin = RESET_PIN
    /\ ok = [state \in ErrorStates |-> TRUE]
    /\ M0_after_prints
    /\ NewItem(NoInterval, NoInterval, NoInterval)
    /\ \E valid \in [Members -> BOOLEAN] : NewGroup(valid)

SpecGroup == InitGroup /\ [][NextGroup]_vars

----------------------------------------------------------------------------
(* The commands: one command runs in a thread of its own while the state
   manager's handlers are called from the serial reader; every handler is
   one step, the command takes one statement at a time *)

\* who asked for the command: the default of Command.__init__ and USER
CommandSources == {"CONNECT", "USER"}

cmd_cfg == <<cmd_name, cmd_source, path_on_sd, reset_pin>>

try_vars == <<connected, elapsed, succeeded>>

out_vars == <<serial_out, file_printer>>

reset_vars == <<boot_handler, boot_event, reset_signal>>

outside_cmd == <<sm_vars, conc_vars, iu_vars, group_vars, stop_vars, sd_vars>>

\* Command.failed raises CommandFailed(message): the command ends here
failed(message) ==
    /\ cmd_result' = message
    /\ cmd_pc' = "done"

\* the statement at pc has been executed without a failure
goes(pc) ==
    /\ cmd_pc' = pc
    /\ UNCHANGED cmd_result

gcode(name) ==
    CASE name = "pause" -> "M601"
      [] name = "resume" -> "M602"
      [] name = "stop" -> "M603"
      [] OTHER -> None

\* a faulty variant: the change is attributed to the user whatever the source
\* of the command
try_change_user ==
    StateChange(CommandId,
                {<<desired, "USER">> : desired \in desired_states(cmd_name)},
                EmptyMap, None, None, FALSE)

\* the expected change _try_until_state registers
try_change ==
    StateChange(CommandId,
                {<<desired, cmd_source>> : desired \in desired_states(cmd_name)},
                EmptyMap, None, None, FALSE)

\* the expected change StartPrint registers
start_change ==
    StateChange(CommandId, Map1("PRINTING", cmd_source), EmptyMap, None,
                None, FALSE)

\* a command object is created and its _run_command is entered
CommandCreate ==
    /\ cmd_name = None
    /\ \E name \in {"pause", "resume", "stop", "start"},
          source \in CommandSources, on_sd \in BOOLEAN :
            /\ cmd_name' = name
            /\ cmd_source' = source
            /\ path_on_sd' = (on_sd /\ name = "start")
            /\ cmd_pc' = CASE name = "stop" -> "file_printer"
                           [] name = "start" -> "check_printing"
                           [] OTHER -> "check_state"
    /\ UNCHANGED <<cmd_running, right_state, try_vars, out_vars, cmd_result,
                   reset_pin, reset_vars, outside_cmd>>

\* Command.stop: running = False
CommandStop ==
    /\ cmd_name # None
    /\ cmd_pc # "done"
    /\ cmd_running
    /\ cmd_running' = FALSE
    /\ UNCHANGED <<cmd_cfg, cmd_pc, cmd_result, right_state, try_vars,
                   out_vars, reset_vars, outside_cmd>>

\* PausePrint / ResumePrint: the state the command starts from
CheckState ==
    /\ cmd_pc = "check_state"
    /\ IF cmd_name = "pause"
       THEN IF get_state(SM) # "PRINTING"
            THEN failed("Cannot pause when not printing.")
            ELSE goes("file_printer")
       ELSE IF get_state(SM) # "PAUSED"
            THEN failed("Cannot resume when not paused.")
            ELSE goes("expect")
    /\ UNCHANGED <<cmd_cfg, cmd_running, right_state, try_vars, out_vars,
                   reset_vars, outside_cmd>>

\* PausePrint / StopPrint: if self.model.file_printer.printing
FilePrinter ==
    /\ cmd_pc = "file_printer"
    /\ \E file_printing \in BOOLEAN :
        file_printer' = IF ~file_printing THEN file_printer
                        ELSE Append(file_printer,
                                    IF cmd_name = "pause" THEN "pause"
                                    ELSE "stop_print")
    /\ goes("expect")
    /\ UNCHANGED <<cmd_cfg, cmd_running, right_state, try_vars, serial_out,
                   reset_vars, outside_cmd>>

\* _try_until_state: if get_state() not in desired_states: expect_change
TryExpect ==
    /\ cmd_pc = "expect"
    /\ BecomesState(IF get_state(SM) \notin desired_states(cmd_name)
                    THEN expect_change(SM, try_change) ELSE SM)
    /\ goes("connect")
    /\ UNCHANGED <<cmd_cfg, cmd_running, try_vars, out_vars, reset_vars,
                   conc_vars>>

\* _try_until_state: state_changed_signal.connect(state_changed)
TryConnect ==
    /\ cmd_pc = "connect"
    /\ connected' = TRUE
    /\ goes("dispatch")
    /\ UNCHANGED <<cmd_cfg, cmd_running, right_state, elapsed, succeeded,
                   out_vars, reset_vars, outside_cmd>>

\* do_instruction: the gcode is enqueued
TryDispatch ==
    /\ cmd_pc = "dispatch"
    /\ serial_out' = Append(serial_out, gcode(cmd_name))
    /\ goes("wait_instruction")
    /\ UNCHANGED <<cmd_cfg, cmd_running, right_state, try_vars,
                   file_printer, reset_vars, outside_cmd>>

\* do_instruction: the instruction has been confirmed
DoInstructionConfirmed ==
    /\ cmd_pc \in {"wait_instruction", "wait_m24"}
    /\ goes(IF cmd_pc = "wait_m24" THEN "call_printing" ELSE "edge")
    /\ UNCHANGED <<cmd_cfg, cmd_running, right_state, try_vars, out_vars,
                   reset_vars, outside_cmd>>

\* do_instruction / do_matchable: the command has stopped running before
\* the instruction was confirmed
DoInstructionInterrupted ==
    /\ cmd_pc \in {"wait_instruction", "wait_m23", "wait_m24"}
    /\ ~cmd_running
    /\ failed("Command interrupted")
    /\ UNCHANGED <<cmd_cfg, cmd_running, right_state, try_vars, out_vars,
                   reset_vars, outside_cmd>>

\* _try_until_state: wait_until is computed; if current_state is a desired
\* state already, right_state is set
TryEdge ==
    /\ cmd_pc = "edge"
    /\ right_state' = (right_state
                       \/ current_state \in desired_states(cmd_name))
    /\ elapsed' = 0
    /\ succeeded' = FALSE
    /\ goes("loop")
    /\ UNCHANGED <<cmd_cfg, cmd_running, connected, out_vars, reset_vars,
                   outside_cmd>>

\* while self.running and time() < wait_until and not succeeded
TryLooping == cmd_running /\ elapsed < MaxWait /\ ~succeeded

\* succeeded = self.right_state.wait(QUIT_INTERVAL)
TryWait ==
    /\ cmd_pc = "loop"
    /\ TryLooping
    /\ IF right_state
       THEN succeeded' = TRUE /\ UNCHANGED elapsed
       ELSE elapsed' = elapsed + 1 /\ UNCHANGED succeeded
    /\ goes("loop")
    /\ UNCHANGED <<cmd_cfg, cmd_running, right_state, connected, out_vars,
                   reset_vars, outside_cmd>>

\* the loop is left; state_changed_signal.disconnect(state_changed)
TryDisconnect ==
    /\ cmd_pc = "loop"
    /\ ~TryLooping
    /\ connected' = FALSE
    /\ goes("stop_expecting")
    /\ UNCHANGED <<cmd_cfg, cmd_running, right_state, elapsed, succeeded,
                   out_vars, reset_vars, outside_cmd>>

\* _try_until_state / StartPrint: self.state_manager.stop_expecting_change()
CommandStopExpecting ==
    /\ cmd_pc = "stop_expecting"
    /\ BecomesState(stop_expecting_change(SM))
    /\ IF cmd_name = "start"
       THEN cmd_result' = "ok" /\ cmd_pc' = "done"
       ELSE goes("finish")
    /\ UNCHANGED <<cmd_cfg, cmd_running, try_vars, out_vars, reset_vars,
                   conc_vars>>

\* _try_until_state: if not succeeded: self.failed(...)
TryFinish ==
    /\ cmd_pc = "finish"
    /\ IF ~succeeded
       THEN failed("Couldn't get to any of the states.")
       ELSE cmd_result' = "ok" /\ cmd_pc' = "done"
    /\ UNCHANGED <<cmd_cfg, cmd_running, right_state, try_vars, out_vars,
                   reset_vars, outside_cmd>>

\* a faulty variant: a print is started over a print that is under way
StartCheckPrinting_skipped ==
    /\ cmd_pc = "check_printing"
    /\ goes("check_override")
    /\ UNCHANGED <<cmd_cfg, cmd_running, right_state, try_vars, out_vars,
                   reset_vars, outside_cmd>>

\* StartPrint: if printing_state is not None: failed
StartCheckPrinting ==
    /\ cmd_pc = "check_printing"
    /\ IF printing_state # None
       THEN failed("Already printing")
       ELSE goes("check_override")
    /\ UNCHANGED <<cmd_cfg, cmd_running, right_state, try_vars, out_vars,
                   reset_vars, outside_cmd>>

\* StartPrint: if override_state is not None: failed
StartCheckOverride ==
    /\ cmd_pc = "check_override"
    /\ IF override_state # None
       THEN failed("Cannot print in this state.")
       ELSE goes("start_expect")
    /\ UNCHANGED <<cmd_cfg, cmd_running, right_state, try_vars, out_vars,
                   reset_vars, outside_cmd>>

\* StartPrint: expect_change(StateChange(to_states={PRINTING: source}))
StartExpect ==
    /\ cmd_pc = "start_expect"
    /\ BecomesState(expect_change(SM, start_change))
    /\ goes(IF path_on_sd THEN "load_file" ELSE "check_exists")
    /\ UNCHANGED <<cmd_cfg, cmd_running, try_vars, out_vars, reset_vars,
                   conc_vars>>

\* _load_file: do_matchable("M23 ...")
StartLoadFile ==
    /\ cmd_pc = "load_file"
    /\ serial_out' = Append(serial_out, "M23")
    /\ goes("wait_m23")
    /\ UNCHANGED <<cmd_cfg, cmd_running, right_state, try_vars,
                   file_printer, reset_vars, outside_cmd>>

\* _load_file: the instruction is confirmed, the file was opened or not
StartFileOpened ==
    /\ cmd_pc = "wait_m23"
    /\ \E opened \in BOOLEAN :
        IF opened THEN goes("start_print")
        ELSE failed("Wrong file name, or bad file.")
    /\ UNCHANGED <<cmd_cfg, cmd_running, right_state, try_vars, out_vars,
                   reset_vars, outside_cmd>>

\* _start_print: do_instruction("M24")
StartStartPrint ==
    /\ cmd_pc = "start_print"
    /\ serial_out' = Append(serial_out, "M24")
    /\ goes("wait_m24")
    /\ UNCHANGED <<cmd_cfg, cmd_running, right_state, try_vars,
                   file_printer, reset_vars, outside_cmd>>

\* StartPrint: a local file that exists is given to the file printer
StartFilePrint ==
    /\ cmd_pc = "check_exists"
    /\ \E exists \in BOOLEAN :
        IF exists
        THEN /\ file_printer' = Append(file_printer, "print")
             /\ goes("call_printing")
        ELSE /\ failed("The file does not exist.")
             /\ UNCHANGED file_printer
    /\ UNCHANGED <<cmd_cfg, cmd_running, right_state, try_vars, serial_out,
                   reset_vars, outside_cmd>>

\* StartPrint: self.state_manager.printing()
StartCallPrinting ==
    /\ cmd_pc = "call_printing"
    /\ BecomesState(printing(SM))
    /\ goes("stop_expecting")
    /\ UNCHANGED <<cmd_cfg, cmd_running, try_vars, out_vars, reset_vars,
                   conc_vars>>

\* the serial-line events the state manager handles while a command runs
SerialEvent ==
    \/ Printing
    \/ Paused
    \/ Resumed
    \/ Stopped
    \/ Finished
    \/ NotPrinting
    \/ Attention
    \/ InstructionConfirmed

NextCmd ==
    \/ CommandCreate
    \/ CommandStop
    \/ CheckState
    \/ FilePrinter
    \/ TryExpect
    \/ TryConnect
    \/ TryDispatch
    \/ DoInstructionConfirmed
    \/ DoInstructionInterrupted
    \/ TryEdge
    \/ TryWait
    \/ TryDisconnect
    \/ CommandStopExpecting
    \/ TryFinish
    \/ StartCheckPrinting
    \/ StartCheckOverride
    \/ StartExpect
    \/ StartLoadFile
    \/ StartFileOpened
    \/ StartStartPrint
    \/ StartFilePrint
    \/ StartCallPrinting
    \/ SerialEvent

InitCmd ==
    /\ InitManager
    /\ reset_pin = RESET_PIN
    /\ ok = [state \in ErrorStates |-> TRUE]
    /\ M0_after_prints
    /\ NoItems

SpecCmd == InitCmd /\ [][NextCmd]_vars

\* the command's thread keeps running through the wait and what follows it
FairCmd ==
    /\ SpecCmd
    /\ WF_vars(TryWait)
    /\ WF_vars(TryDisconnect)
    /\ WF_vars(CommandStopExpecting)
    /\ WF_vars(TryFinish)

----------------------------------------------------------------------------
(* ResetPrinter: the printer is reset through a GPIO pin or the DTR line of
   the serial port, and the command waits for the boot banner *)

\* the timeout of the wait for the boot banner, in waits of QUIT_INTERVAL
ResetTimeout == MaxWait

\* a faulty variant: no pin is refused
reset_refused_never(pin) == FALSE

\* if RESET_PIN == 23
reset_refused(pin) == pin = 23

\* the expected change ResetPrinter registers
reset_change ==
    StateChange(CommandId, EmptyMap, EmptyMap, cmd_source, None, FALSE)

ResetCreate ==
    /\ cmd_name = None
    /\ cmd_name' = "reset"
    /\ cmd_pc' = "check_pin"
    /\ \E source \in CommandSources : cmd_source' = source
    /\ UNCHANGED <<path_on_sd, reset_pin, cmd_running, right_state, try_vars,
                   out_vars, cmd_result, reset_vars, outside_cmd>>

\* the pin is checked; times_out_at = time() + self.timeout; event = Event()
ResetCheckPin ==
    /\ cmd_pc = "check_pin"
    /\ IF reset_refused(reset_pin)
       THEN /\ failed("Pin BCM_23 is by default connected straight to ground.")
            /\ UNCHANGED <<elapsed, boot_event>>
       ELSE /\ goes("add_handler")
            /\ elapsed' = 0
            /\ boot_event' = FALSE
    /\ UNCHANGED <<cmd_cfg, cmd_running, right_state, connected, succeeded,
                   out_vars, boot_handler, reset_signal, outside_cmd>>

\* self.serial_parser.add_handler(PRINTER_BOOT_REGEX, waiter)
ResetAddHandler ==
    /\ cmd_pc = "add_handler"
    /\ boot_handler' = TRUE
    /\ goes("reset_expect")
    /\ UNCHANGED <<cmd_cfg, cmd_running, right_state, try_vars, out_vars,
                   boot_event, reset_signal, outside_cmd>>

\* expect_change(StateChange(default_source=self.source, command_id))
ResetExpect ==
    /\ cmd_pc = "reset_expect"
    /\ BecomesState(expect_change(SM, reset_change))
    /\ goes("reset_signal")
    /\ UNCHANGED <<cmd_cfg, cmd_running, try_vars, out_vars, reset_vars,
                   conc_vars>>

\* the reset pin is pulsed if wiringpi is there, the DTR line is toggled if
\* it is not
ResetSignal ==
    /\ cmd_pc = "reset_signal"
    /\ \E wiringpi \in BOOLEAN :
        reset_signal' = IF wiringpi THEN "gpio" ELSE "blip_dtr"
    /\ goes("reset_loop")
    /\ UNCHANGED <<cmd_cfg, cmd_running, right_state, try_vars, out_vars,
                   boot_handler, boot_event, outside_cmd>>

\* while self.running and time() < times_out_at
ResetLooping == cmd_running /\ elapsed < ResetTimeout

\* if event.wait(QUIT_INTERVAL): break
ResetWait ==
    /\ cmd_pc = "reset_loop"
    /\ ResetLooping
    /\ IF boot_event
       THEN goes("remove_handler") /\ UNCHANGED elapsed
       ELSE goes("reset_loop") /\ elapsed' = elapsed + 1
    /\ UNCHANGED <<cmd_cfg, cmd_running, right_state, connected, succeeded,
                   out_vars, reset_vars, outside_cmd>>

\* the condition of the loop is false
ResetLoopEnds ==
    /\ cmd_pc = "reset_loop"
    /\ ~ResetLooping
    /\ goes("remove_handler")
    /\ UNCHANGED <<cmd_cfg, cmd_running, right_state, try_vars, out_vars,
                   reset_vars, outside_cmd>>

\* self.serial_parser.remove_handler(PRINTER_BOOT_REGEX, waiter)
ResetRemoveHandler ==
    /\ cmd_pc = "remove_handler"
    /\ boot_handler' = FALSE
    /\ goes("reset_finish")
    /\ UNCHANGED <<cmd_cfg, cmd_running, right_state, try_vars, out_vars,
                   boot_event, reset_signal, outside_cmd>>

\* if time() > times_out_at: self.failed(...)
ResetFinish ==
    /\ cmd_pc = "reset_finish"
    /\ IF elapsed >= ResetTimeout
       THEN failed("Your printer has ignored the reset signal.")
       ELSE cmd_result' = "ok" /\ cmd_pc' = "done"
    /\ UNCHANGED <<cmd_cfg, cmd_running, right_state, try_vars, out_vars,
                   reset_vars, outside_cmd>>

\* the serial parser matches the boot banner and calls waiter: event.set()
BootBanner ==
    /\ boot_handler
    /\ ~boot_event
    /\ boot_event' = TRUE
    /\ UNCHANGED <<cmd_cfg, cmd_pc, cmd_result, cmd_running, right_state,
                   try_vars, out_vars, boot_handler, reset_signal,
                   outside_cmd>>

NextReset ==
    \/ ResetCreate
    \/ CommandStop
    \/ ResetCheckPin
    \/ ResetAddHandler
    \/ ResetExpect
    \/ ResetSignal
    \/ ResetWait
    \/ ResetLoopEnds
    \/ ResetRemoveHandler
    \/ ResetFinish
    \/ BootBanner
    \/ SerialEvent

InitReset ==
    /\ InitManager
    /\ reset_pin \in ResetPins
    /\ ok = [state \in ErrorStates |-> TRUE]
    /\ M0_after_prints
    /\ NoItems

SpecReset == InitReset /\ [][NextReset]_vars

----------------------------------------------------------------------------
(* start() and stop() of ItemUpdater and of IPCConsumer, and the loops of
   their threads.  What a worker takes from its queue is abstracted to the
   branch it takes; a deadline in the far future is a wait that only the
   event ends. *)

outside_stop == <<sm_vars, conc_vars, iu_vars, group_vars, cmd_vars,
                  sd_vars>>

\* the event a worker of ItemUpdater waits on
event_of(w) ==
    IF w = "invalidator" THEN "invalidate_queue_event"
    ELSE "timeout_queue_event"

\* Thread.join(): RuntimeError for a thread that was never started, returns
\* once the thread has finished
join(thread) ==
    CASE thread = "new" -> "RuntimeError"
      [] thread = "finished" -> "joined"
      [] OTHER -> "blocked"

\* ItemUpdater.start
UpdaterStart ==
    /\ \A w \in Workers : updater.thread[w] = "new"
    /\ updater.stop_pc = "idle"
    /\ updater' = [updater EXCEPT !.thread = [w \in Workers |-> "started"]]
    /\ UNCHANGED <<consumer, outside_stop>>

\* while self.running
WorkerLoop(w) ==
    /\ updater.thread[w] = "started"
    /\ updater.pc[w] = "loop"
    /\ updater' = IF updater.running
                  THEN [updater EXCEPT !.pc[w] = "get"]
                  ELSE [updater EXCEPT !.pc[w] = "exited",
                                       !.thread[w] = "finished"]
    /\ UNCHANGED <<consumer, outside_stop>>

\* the branches of a worker after queue.get(timeout=self.quit_interval):
\* Empty, a timer that is discarded or due (an item that is gathered), or a
\* timer whose deadline is in the future
Branches(w) ==
    IF w = "refresher" THEN {"empty", "item"}
    ELSE {"empty", "discarded", "due", "future"}

WorkerGet(w) ==
    /\ updater.pc[w] = "get"
    /\ \E branch \in Branches(w) :
        updater' = [updater EXCEPT
                        !.pc[w] = IF branch = "future" THEN "wait" ELSE "loop"]
    /\ UNCHANGED <<consumer, outside_stop>>

\* event.wait(deadline - current_time) returns because the event is set
WorkerWait(w) ==
    /\ updater.pc[w] = "wait"
    /\ updater[event_of(w)]
    /\ updater' = [updater EXCEPT !.pc[w] = "clear"]
    /\ UNCHANGED <<consumer, outside_stop>>

\* event.wait(deadline - current_time) returns because the deadline has come
WorkerWaitTimeout(w) ==
    /\ updater.pc[w] = "wait"
    /\ ~updater[event_of(w)]
    /\ updater' = [updater EXCEPT !.pc[w] = "clear"]
    /\ UNCHANGED <<consumer, outside_stop>>

\* event.clear()
WorkerClear(w) ==
    /\ updater.pc[w] = "clear"
    /\ updater' = [updater EXCEPT ![event_of(w)] = FALSE, !.pc[w] = "loop"]
    /\ UNCHANGED <<consumer, outside_stop>>

\* schedule_invalidation: self.invalidate_queue_event.set()
ScheduleSetsEvent ==
    /\ ~updater.invalidate_queue_event
    /\ updater' = [updater EXCEPT !.invalidate_queue_event = TRUE]
    /\ UNCHANGED <<consumer, outside_stop>>

\* ItemUpdater.stop is called: self.running = False
UpdaterStop ==
    /\ updater.stop_pc = "idle"
    /\ updater.stop_calls < MaxStops
    /\ updater' = [updater EXCEPT !.running = FALSE,
                                  !.stop_pc = "set_invalidate",
                                  !.stop_calls = @ + 1,
                                  !.stop_result = None]
    /\ UNCHANGED <<consumer, outside_stop>>

\* a faulty variant: the invalidator is not woken
UpdaterStopSetInvalidate_skipped ==
    /\ updater.stop_pc = "set_invalidate"
    /\ updater' = [updater EXCEPT !.stop_pc = "set_timeout"]
    /\ UNCHANGED <<consumer, outside_stop>>

\* self.invalidate_queue_event.set()
UpdaterStopSetInvalidate ==
    /\ updater.stop_pc = "set_invalidate"
    /\ updater' = [updater EXCEPT !.invalidate_queue_event = TRUE,
                                  !.stop_pc = "set_timeout"]
    /\ UNCHANGED <<consumer, outside_stop>>

\* self.timeout_queue_event.set()
UpdaterStopSetTimeout ==
    /\ updater.stop_pc = "set_timeout"
    /\ updater' = [updater EXCEPT !.timeout_queue_event = TRUE,
                                  !.stop_pc = "invalidator"]
    /\ UNCHANGED <<consumer, outside_stop>>

\* the threads are joined in this order; stop() returns after the last
after_join(w) ==
    CASE w = "invalidator" -> "timeout"
      [] w = "timeout" -> "refresher"
      [] w = "refresher" -> "idle"

\* self.invalidator_thread.join(), self.timeout_thread.join(),
\* self.refresher_thread.join()
UpdaterStopJoin(w) ==
    /\ updater.stop_pc = w
    /\ join(updater.thread[w]) # "blocked"
    /\ updater' =
        IF join(updater.thread[w]) = "RuntimeError"
        THEN [updater EXCEPT !.stop_pc = "idle",
                             !.stop_result = "RuntimeError"]
        ELSE [updater EXCEPT !.stop_pc = after_join(w),
                             !.stop_result = IF after_join(w) = "idle"
                                             THEN "returned" ELSE @]
    /\ UNCHANGED <<consumer, outside_stop>>

\* IPCConsumer.start
ConsumerStart ==
    /\ consumer.thread = "new"
    /\ consumer.stop_pc = "idle"
    /\ consumer' = [consumer EXCEPT !.running = TRUE, !.ipc_queue = "open",
                                    !.thread = "started"]
    /\ UNCHANGED <<updater, outside_stop>>

\* _read_commands: while self.running
ConsumerLoop ==
    /\ consumer.thread = "started"
    /\ consumer.pc = "loop"
    /\ consumer' = IF consumer.running
                   THEN [consumer EXCEPT !.pc = "get"]
                   ELSE [consumer EXCEPT !.pc = "exited",
                                         !.thread = "finished"]
    /\ UNCHANGED <<updater, outside_stop>>

\* self.ipc_queue.get(block=True, timeout=QUIT_INTERVAL) and the handler
ConsumerGet ==
    /\ consumer.pc = "get"
    /\ consumer' = [consumer EXCEPT !.pc = "loop"]
    /\ UNCHANGED <<updater, outside_stop>>

\* IPCConsumer.stop is called: self.running = False
ConsumerStop ==
    /\ consumer.stop_pc = "idle"
    /\ consumer.stop_calls < MaxStops
    /\ consumer' = [consumer EXCEPT !.running = FALSE, !.stop_pc = "join",
                                    !.stop_calls = @ + 1,
                                    !.stop_result = None]
    /\ UNCHANGED <<updater, outside_stop>>

\* self.ipc_queue_thread.join()
ConsumerStopJoin ==
    /\ consumer.stop_pc = "join"
    /\ join(consumer.thread) # "blocked"
    /\ consumer' =
        IF join(consumer.thread) = "RuntimeError"
        THEN [consumer EXCEPT !.stop_pc = "idle",
                              !.stop_result = "RuntimeError"]
        ELSE [consumer EXCEPT !.stop_pc = "unlink"]
    /\ UNCHANGED <<updater, outside_stop>>

\* self.ipc_queue.unlink(); what posixmq does for a queue that has been
\* unlinked is not in this repository: it returns or raises
ConsumerStopUnlink ==
    /\ consumer.stop_pc = "unlink"
    /\ \E result \in IF consumer.ipc_queue = "open" THEN {"returned"}
                     ELSE {"returned", "QueueError"} :
        consumer' = [consumer EXCEPT !.stop_pc = "idle",
                                     !.ipc_queue = "unlinked",
                                     !.stop_result = result]
    /\ UNCHANGED <<updater, outside_stop>>

NextStop ==
    \/ UpdaterStart
    \/ \E w \in Workers : WorkerLoop(w)
    \/ \E w \in Workers : WorkerGet(w)
    \/ \E w \in Workers \ {"refresher"} : WorkerWait(w)
    \/ \E w \in Workers \ {"refresher"} : WorkerWaitTimeout(w)
    \/ \E w \in Workers \ {"refresher"} : WorkerClear(w)
    \/ ScheduleSetsEvent
    \/ UpdaterStop
    \/ UpdaterStopSetInvalidate
    \/ UpdaterStopSetTimeout
    \/ \E w \in Workers : UpdaterStopJoin(w)
    \/ ConsumerStart
    \/ ConsumerLoop
    \/ ConsumerGet
    \/ ConsumerStop
    \/ ConsumerStopJoin
    \/ ConsumerStopUnlink

InitStop ==
    /\ InitManager
    /\ reset_pin = RESET_PIN
    /\ ok = [state \in ErrorStates |-> TRUE]
    /\ M0_after_prints
    /\ NoItems

SpecStop == InitStop /\ [][NextStop]_vars

\* every thread that can take a step takes it: a worker in its loop, and
\* the thread that has called stop(); a wait with a deadline in the far
\* future is only ended by the event
FairStop ==
    /\ SpecStop
    /\ \A w \in Workers : WF_vars(WorkerLoop(w))
    /\ \A w \in Workers : WF_vars(WorkerGet(w))
    /\ \A w \in Workers \ {"refresher"} : WF_vars(WorkerWait(w))
    /\ \A w \in Workers \ {"refresher"} : WF_vars(WorkerClear(w))
    /\ WF_vars(UpdaterStopSetInvalidate)
    /\ WF_vars(UpdaterStopSetTimeout)
    /\ \A w \in Workers : WF_vars(UpdaterStopJoin(w))

----------------------------------------------------------------------------
(* Properties of the state manager *)

\* C1: between handlers the reported state current_state is override_state
\* if it is set, otherwise printing_state if it is set, otherwise base_state.
C1_ReportedIsTopLayer ==
    current_state = IF override_state # None THEN override_state
                    ELSE IF printing_state # None THEN printing_state
                    ELSE base_state

\* all three layers are set and the override layer is the one reported
C1_Witness ==
    /\ override_state = "ATTENTION"
    /\ printing_state = "PAUSED"
    /\ base_state = "READY"
    /\ current_state = "ATTENTION"

C3_ErrorUntilResolved ==
    [][(override_state = "ERROR" /\ override_state' # "ERROR")
          => error_count' = 0]_vars

C5_ErrorEntryCounted ==
    [][(override_state # "ERROR" /\ override_state' = "ERROR")
          => error_count' >= 1]_vars

\* C5 as amended: whenever the override layer changes to ERROR through
\* error(), that is in every handler but serial_error(), error_count is at
\* least 1.
C5_ErrorEntryCountedByError ==
    [][(override_state # "ERROR" /\ override_state' = "ERROR" /\ ~SerialError)
          => error_count' >= 1]_vars

\* error() has set the override layer to ERROR with its default source
C5_Witness ==
    /\ override_state = "ERROR"
    /\ error_count >= 1
    /\ emitted # << >>
    /\ emitted[Len(emitted)].to_state = "ERROR"
    /\ emitted[Len(emitted)].source = "WUI"

\* the handlers that call a method which clears the startup guard
ClearsGuard ==
    \/ Printing
    \/ Paused
    \/ Resumed
    \/ Stopped
    \/ NotPrinting
    \/ StoppedOrNotPrinting
    \/ Reset
    \/ FilePrinterStartedPrinting

\* C6: while unsure_whether_printing is true the base state is BUSY and the
\* reported state is not READY, instruction_confirmed() changes no layer,
\* only a printing-layer signal clears the flag and nothing sets it again.
C6_StartupGuard ==
    /\ [](unsure_whether_printing =>
            base_state = "BUSY" /\ current_state # "READY")
    /\ [][/\ (unsure_whether_printing /\ InstructionConfirmed) =>
                UNCHANGED <<base_state, printing_state, override_state>>
          /\ (unsure_whether_printing /\ ~unsure_whether_printing') =>
                ClearsGuard
          /\ ~unsure_whether_printing => ~unsure_whether_printing'
         ]_vars

\* after the guard was cleared instruction_confirmed() has cleared BUSY
C6_Witness ==
    /\ ~unsure_whether_printing
    /\ current_state = "READY"
    /\ emitted # << >>
    /\ emitted[1].from_state = "BUSY"

\* is_expected for the change c and the reported change from_state to to_state
Matches(c, from_state, to_state) ==
    \/ Has(c.to_states, to_state)
    \/ Has(c.from_states, from_state)
    \/ c.default_source # None

\* C7 as stated: the first change of the reported state after
\* expect_change(c) carries c's command_id, reason and checked flag when c
\* matches, and empties the slot.
C7_ConsumedByFirstChange ==
    [][(expected_state_change # << >> /\ emitted' # << >>) =>
          LET c == expected_state_change[1]
              e == emitted'[1]
          IN  /\ expected_state_change' = << >>
              /\ Matches(c, e.from_state, e.to_state) =>
                    /\ e.command_id = c.command_id
                    /\ e.reason = c.reason
                    /\ e.checked = c.checked
      ]_vars

\* the handlers that call expect_change themselves before they change the
\* state: attention() with a latched fan error, the error handler and the
\* error-reason waiter
RegistersOwnChange ==
    \/ fan_error_name # None /\ Attention
    \/ ErrorHandler
    \/ ErrorReasonWaiterTimeout

\* C7 as amended: c stays registered until the first change of the reported
\* state unless a later expect_change replaces it or stop_expecting_change
\* clears it; the first change observed while c is registered carries c's
\* command_id, reason and checked flag when c matches, and empties the slot.
C7_ConsumedUnlessReplaced ==
    [][expected_state_change # << >> =>
          LET c == expected_state_change[1]
          IN  IF emitted' # << >>
              THEN /\ expected_state_change' = << >>
                   /\ (~RegistersOwnChange
                       /\ Matches(c, emitted'[1].from_state,
                                  emitted'[1].to_state)) =>
                         /\ emitted'[1].command_id = c.command_id
                         /\ emitted'[1].reason = c.reason
                         /\ emitted'[1].checked = c.checked
              ELSE \/ expected_state_change' = expected_state_change
                   \/ RegistersOwnChange
                   \/ ExpectChange
                   \/ StopExpectingChange
      ]_vars

\* a change of the reported state has been attributed to a caller's command
C7_Witness ==
    /\ emitted # << >>
    /\ emitted[1].command_id = CommandId
    /\ expected_state_change = << >>

\* C8: the source is the from_states source of last_state if it is set,
\* otherwise the to_states source of current_state if it is set, otherwise
\* default_source.
C8_SourcePreference ==
    source_out # "unset" =>
        LET c == expected_state_change[1]
            from_set == /\ Has(c.from_states, last_state)
                        /\ Get(c.from_states, last_state) # None
            to_set == /\ Has(c.to_states, current_state)
                      /\ Get(c.to_states, current_state) # None
        IN  source_out = IF from_set THEN Get(c.from_states, last_state)
                         ELSE IF to_set THEN Get(c.to_states, current_state)
                         ELSE c.default_source

\* the from and to sources are both set and differ: the from source is out
C8_Witness ==
    /\ source_out = "USER"
    /\ <<last_state, "USER">> \in expected_state_change[1].from_states
    /\ <<current_state, "MARLIN">> \in expected_state_change[1].to_states

\* C9: a printing_state of FINISHED or STOPPED is changed only by
\* printer_checked(), or by instruction_confirmed() when M0_after_prints is
\* disabled and the startup guard is off.
C9_FinishedUntilAcknowledged ==
    [][(printing_state \in {"FINISHED", "STOPPED"}
        /\ printing_state' # printing_state) =>
          \/ PrinterChecked
          \/ InstructionConfirmed /\ ~M0_after_prints
                                  /\ ~unsure_whether_printing
      ]_vars

\* the reported state has moved away from FINISHED, the layer is kept
C9_Witness ==
    /\ printing_state = "FINISHED"
    /\ emitted # << >>
    /\ emitted[1].from_state = "FINISHED"

\* C10: a latched fan error is consumed only by a change of the reported
\* state to ATTENTION, whose signal carries the reason "<fan_name> fan
\* error", and that change empties the latch.
C10_FanLatchConsumedByAttention ==
    [][fan_error_name # None =>
          /\ fan_error_name' = None =>
                \E i \in 1..Len(emitted') :
                    /\ emitted'[i].to_state = "ATTENTION"
                    /\ emitted'[i].reason = fan_reason(fan_error_name)
          /\ \A i \in 1..Len(emitted') :
                emitted'[i].to_state = "ATTENTION" =>
                    /\ emitted'[i].reason = fan_reason(fan_error_name)
                    /\ fan_error_name' = None
      ]_vars

C12_SpecificReasonWins ==
    [][/\ \A i \in 1..MaxThreads : WaiterExpect(i) => ~specific_seen[i]
       /\ (/\ ReaderSetOk
           /\ reader_groups \in SpecificLines
           /\ \E i \in 1..MaxThreads : specific_seen[i]
           /\ override_state # "ERROR"
           /\ override_state' = "ERROR") =>
             /\ Len(emitted') = 1
             /\ emitted'[1].reason = get_reason(reader_groups)
      ]_vars

\* C13: at most one waiter thread is waiting at any time, and only the
\* waiter thread started last can time out.
C13_OneWaiter ==
    [][/\ Cardinality({i \in 1..MaxThreads : waiter_pc'[i] = "waiting"}) <= 1
       /\ \A i \in 1..MaxThreads :
            WaiterTimeout(i) => i = error_reason_thread]_vars

\* the steps taken inside `with self.state_lock`
LockedStep ==
    \/ MutatorAcquire
    \/ MutatorFunc
    \/ MutatorChanged
    \/ MutatorRelease
    \/ ReaderSetOk
    \/ \E i \in 1..MaxThreads : WaiterSetOk(i)

\* C14: every write to base_state, printing_state, override_state and
\* expected_state_change is made by a step that holds the state lock.
C14_WritesUnderLock ==
    [][(<<base_state, printing_state, override_state,
          expected_state_change>>' #
        <<base_state, printing_state, override_state,
          expected_state_change>>) => LockedStep]_vars

\* C15: the item is never valid with a value whose gather was already
\* running when the item was last invalidated.
C15_NoStaleValidValue == ~(item_valid /\ value_stale)

\* the queued deadlines that are the item's current deadline
CurrentTimers ==
    {i \in 1..Len(invalidate_timers) :
        invalidate_timers[i] = item_invalidate_at}

C17_OneCurrentTimer ==
    [][/\ Cardinality(CurrentTimers') <= 1
       /\ InvalidatorInvalidate => invalidator_timer = item_invalidate_at
      ]_vars

\* C18: when no thread is in a handler of the group, the group is valid
\* exactly when invalid_items is empty, and valid_items and invalid_items
\* hold the members by their valid flags.
C18_GroupValidIffAllValid ==
    (\A item \in Members : handler_pc[item] = "idle") =>
        /\ group_valid <=> (invalid_items = {})
        /\ valid_items = {item \in Members : member_valid[item]}
        /\ invalid_items = {item \in Members : ~member_valid[item]}

\* a value that validates has been written by _set_value
ValueSet ==
    /\ SetValue \/ GatherReturns
    /\ signals' = << >> \/ signals'[1] # "validation_error"

\* a gather or a validation has failed
GatherFailed ==
    \/ GatherRaises
    \/ /\ SetValue \/ GatherReturns
       /\ signals' # << >>
       /\ signals'[1] = "validation_error"

\* the timer of the item's current deadline is queued or in the hands of
\* the invalidator thread
TimerPending ==
    \/ CurrentTimers # {}
    \/ invalidator_pc # "idle" /\ invalidator_timer = item_invalidate_at

\* a refresh of the item is queued or the refresher has just taken it
RefreshPending == refresh_queue # << >> \/ refresher_pc = "got"

\* C19: a value set at time t0 on an item with interval T leaves the
\* deadline t0+T in the item and a timer for it in the queue, whatever was
\* pending before; the invalidator invalidates the item and a refresh is
\* enqueued when it acts on the timer, and a deadline that has passed is
\* acted on or replaced.
C19_PeriodicInvalidation ==
    /\ [][/\ (ValueSet /\ item_interval # NoInterval) =>
                /\ item_invalidate_at' = now + item_interval
                /\ CurrentTimers' # {}
          /\ InvalidatorInvalidate =>
                /\ ~item_valid'
                /\ item_invalidate_at' = inf
                /\ RefreshPending'
         ]_vars
    /\ (item_invalidate_at <= now) ~> (item_invalidate_at > now)

\* the invalidator has invalidated the valid item when its deadline passed
C19_Witness ==
    /\ now = 2
    /\ item_interval = 2
    /\ ~item_valid
    /\ item_value = "v1"
    /\ signals = <<"became_invalid">>
    /\ invalidator_pc = "idle"
    /\ invalidator_timer = inf
    /\ invalidate_timers = << >>
    /\ refresh_queue = <<"item">>

C21_TimeoutArmedOnce ==
    [][/\ (item_valid /\ ~item_valid') => item_times_out_at' # inf
       /\ (~item_valid /\ ~item_valid' /\ item_times_out_at # inf) =>
            \/ item_times_out_at' = item_times_out_at
            \/ TimeoutTimeOut /\ item_times_out_at' = inf
       /\ TimeoutTimeOut => signals' = <<"timed_out", "val_err_timeout">>
      ]_vars

\* C22: the invalidator never invalidates the item while the stored
\* deadline is infinity, which is what cancel_scheduled_invalidation
\* leaves: the timer of a cancelled deadline is discarded.
C22_CancelledTimerDiscarded ==
    [][InvalidatorInvalidate => item_invalidate_at # inf]_vars

\* a state change to a desired state reaches the connected handler
DesiredObserved ==
    /\ connected
    /\ \E i \in 1..Len(emitted') :
            emitted'[i].to_state \in desired_states(cmd_name)

\* C23: the gcode is dispatched before the wait; the wait takes at most
\* MaxWait slices; right_state is set only because the reported state is a
\* desired state when the wait starts or a state change to a desired state
\* is observed; the command succeeds only with right_state set and
\* succeeds when a wait finds it set; it fails with "Couldn't get to any
\* of ... states" only after the timeout or when it has stopped running;
\* the wait always ends.
C23_TryUntilState ==
    /\ [][/\ elapsed' <= MaxWait
          /\ TryEdge => serial_out # << >>
          /\ (TryEdge /\ current_state \in desired_states(cmd_name)) =>
                right_state'
          /\ (~right_state /\ right_state') =>
                \/ TryEdge /\ current_state \in desired_states(cmd_name)
                \/ DesiredObserved
          /\ (TryWait /\ right_state) => succeeded'
          /\ (TryFinish /\ cmd_result' = "ok") => right_state
          /\ (TryFinish /\ cmd_result' # "ok") =>
                /\ cmd_result' = "Couldn't get to any of the states."
                /\ ~cmd_running \/ elapsed = MaxWait
         ]_vars
    /\ (cmd_pc = "loop") ~> (cmd_pc = "done")

\* a pause command has succeeded after it has waited for a slice
C23_Witness ==
    /\ cmd_name = "pause"
    /\ cmd_result = "ok"
    /\ elapsed = 1
    /\ cmd_running

\* the PAUSED event arrives while PausePrint waits for it in PRINTING
PausedWhilePausing ==
    /\ cmd_name = "pause"
    /\ cmd_pc \in {"wait_instruction", "edge", "loop"}
    /\ current_state = "PRINTING"
    /\ Paused

\* C24, as stated: PausePrint while PRINTING enqueues M601, and when the
\* PAUSED event arrives the reported state becomes PAUSED and state_changed
\* fires exactly once with source USER.
C24_PausedSourceUser ==
    [][PausedWhilePausing =>
          /\ serial_out = <<"M601">>
          /\ current_state' = "PAUSED"
          /\ Len(emitted') = 1
          /\ emitted'[1].source = "USER"]_vars

\* C24, amended: PausePrint while PRINTING enqueues M601, and when the
\* PAUSED event arrives the reported state becomes PAUSED and state_changed
\* fires exactly once, from PRINTING to PAUSED; while the change the command
\* expects is still registered the signal carries the command's id and the
\* source the command was created with (CONNECT unless given), and the
\* source is USER only after that expectation has been consumed.
C24_PausedSourceOfCommand ==
    /\ [][PausedWhilePausing =>
             /\ serial_out = <<"M601">>
             /\ current_state' = "PAUSED"
             /\ Len(emitted') = 1
             /\ emitted'[1].from_state = "PRINTING"
             /\ emitted'[1].to_state = "PAUSED"
             /\ right_state'
             /\ IF expected_state_change = <<try_change>>
                THEN /\ emitted'[1].source = cmd_source
                     /\ emitted'[1].command_id = CommandId
                ELSE /\ expected_state_change = << >>
                     /\ emitted'[1].source = "USER"
                     /\ emitted'[1].command_id = NoId]_vars
    /\ [][(cmd_pc = "dispatch" /\ cmd_name = "pause" /\ cmd_pc' # cmd_pc) =>
             serial_out' = <<"M601">>]_vars

C24_Witness ==
    /\ cmd_name = "pause"
    /\ cmd_source = "CONNECT"
    /\ cmd_pc = "loop"
    /\ serial_out = <<"M601">>
    /\ current_state = "PAUSED"
    /\ last_state = "PRINTING"
    /\ Len(emitted) = 1
    /\ emitted[1].source = "CONNECT"
    /\ emitted[1].command_id = CommandId
    /\ right_state

\* StartPrint decides whether it rejects the print
StartRejects ==
    \/ StartCheckPrinting /\ printing_state # None
    \/ StartCheckOverride /\ override_state # None

StartRejected ==
    /\ cmd_name = "start"
    /\ cmd_result \in {"Already printing", "Cannot print in this state."}

\* C25: StartPrint rejects when printing_state is set or override_state is
\* set: it fails without registering an expected change, without enqueuing
\* M23/M24, without invoking the file printer, and leaves every state layer
\* unchanged.
C25_StartPrintRejects ==
    /\ [][StartRejects =>
             /\ cmd_pc' = "done"
             /\ StartRejected'
             /\ expected_state_change = << >>
             /\ UNCHANGED <<expected_state_change, serial_out, file_printer,
                            base_state, printing_state, override_state,
                            current_state, last_state>>
             /\ emitted' = emitted]_vars
    /\ [](StartRejected =>
             /\ cmd_pc = "done"
             /\ expected_state_change = << >>
             /\ serial_out = << >>
             /\ file_printer = << >>)

C25_Witness ==
    /\ cmd_name = "start"
    /\ cmd_result = "Already printing"
    /\ printing_state = "PRINTING"
    /\ override_state = None
    /\ serial_out = << >>
    /\ file_printer = << >>
    /\ expected_state_change = << >>

\* C26: whenever StartPrint completes successfully, for an SD path or a
\* local path, the reported state is PRINTING, under every interleaving with
\* the serial-line events handled by the state manager while the command
\* runs.
C26_StartedIsPrinting ==
    [][(cmd_name = "start" /\ cmd_result # "ok" /\ cmd_result' = "ok") =>
          current_state' = "PRINTING"]_vars

ResetRefusedMessage == "Pin BCM_23 is by default connected straight to ground."

\* C27: ResetPrinter with reset pin 23 fails immediately: no boot-banner
\* handler is registered, no expected change is registered, no GPIO write
\* and no DTR toggle happens, and no bytes are written to serial.
C27_Pin23Refused ==
    /\ [][(ResetCheckPin /\ reset_pin = 23) =>
             /\ cmd_pc' = "done"
             /\ cmd_result' = ResetRefusedMessage]_vars
    /\ []((cmd_name = "reset" /\ reset_pin = 23) =>
             /\ cmd_pc \in {"check_pin", "done"}
             /\ ~boot_handler
             /\ expected_state_change = << >>
             /\ reset_signal = None
             /\ serial_out = << >>)

C27_Witness ==
    /\ cmd_name = "reset"
    /\ reset_pin = 23
    /\ cmd_pc = "done"
    /\ cmd_result = ResetRefusedMessage
    /\ reset_signal = None
    /\ ~boot_handler

\* C28: ResetPrinter fails if the boot banner is not observed: every run in
\* which the banner handler never fired ends in failure, whether the wait
\* ended by the timeout or because the command stopped running; the command
\* succeeds only if the banner was observed.
C28_NoBannerFails ==
    [][(cmd_name = "reset" /\ cmd_result # "ok" /\ cmd_result' = "ok") =>
          boot_event]_vars

\* C29: stop() is idempotent and joins the component's threads, for
\* ItemUpdater and for IPCConsumer: a second stop(), or a stop() on a
\* component that was never started, raises no error and leaves the same
\* stopped state.
C29_StopIdempotent ==
    /\ updater.stop_result \in {None, "returned"}
    /\ consumer.stop_result \in {None, "returned"}

\* stop() has been called on an updater whose threads have been started
StopOfStarted ==
    /\ updater.stop_pc # "idle"
    /\ \A w \in Workers : updater.thread[w] # "new"

\* C30: after running flips false in ItemUpdater.stop(), the refresher, the
\* invalidator and the timeout worker each exit at their next test of the
\* flag, so stop() returns; this includes a worker that sleeps until a
\* deadline in the far future, and stop() racing with schedule_invalidation
\* setting and the worker clearing the wake-up event.
C30_StopReturns ==
    /\ [][\A w \in Workers :
             (WorkerLoop(w) /\ ~updater.running) =>
                updater'.thread[w] = "finished"]_vars
    /\ \A w \in Workers :
          (~updater.running /\ updater.thread[w] = "started") ~>
          (updater.thread[w] = "finished")
    /\ StopOfStarted ~> (updater.stop_result = "returned")

C30_Witness ==
    /\ updater.stop_result = "returned"
    /\ updater.stop_calls = 1
    /\ \A w \in Workers : updater.thread[w] = "finished"
    /\ ~updater.invalidate_queue_event
    /\ updater.timeout_queue_event

\* the printing layer after an operation that sets it to `to` from the
\* states `from` and leaves it alone from every other state
Edge(from, to) ==
    printing_state' = IF printing_state \in from THEN to ELSE printing_state

\* C33: the printing layer changes only along these edges: printing() sets
\* PRINTING only from none or PAUSED; paused() sets PAUSED only from PRINTING
\* or none; resumed() sets PRINTING only from PAUSED; stopped() sets STOPPED
\* only from PRINTING or PAUSED; finished() sets FINISHED only from PRINTING;
\* in every other source state the operation leaves printing_state unchanged.
C33_PrintingLayerEdges ==
    [][/\ Printing => Edge({None, "PAUSED"}, "PRINTING")
       /\ Paused => Edge({"PRINTING", None}, "PAUSED")
       /\ Resumed => Edge({"PAUSED"}, "PRINTING")
       /\ Stopped => Edge({"PRINTING", "PAUSED"}, "STOPPED")
       /\ Finished => Edge({"PRINTING"}, "FINISHED")]_vars

C33_Witness ==
    /\ printing_state = "STOPPED"
    /\ emitted # << >>
    /\ emitted[Len(emitted)].from_state = "PAUSED"
    /\ emitted[Len(emitted)].to_state = "STOPPED"

\* C34: when a TryUntilState command or ResetPrinter has ended, by success,
\* timeout or failure, the handler it registered (the state_changed listener,
\* the boot-banner handler) is no longer registered.
C34_HandlersUnsubscribed ==
    cmd_pc = "done" => (~connected /\ ~boot_handler)

\* C35: when StartPrint fails after registering its expected state change
\* (missing local file, M23 open failure, interrupted G-code), the
\* expected-change slot no longer holds that command's expectation once the
\* command has ended.
C35_FailedCommandStopsExpecting ==
    (cmd_name = "start" /\ cmd_pc = "done" /\ cmd_result # "ok") =>
        expected_state_change # <<start_change>>

\* C36: a mutator's default expected change never removes an expectation
\* registered by a caller: under every interleaving of a thread calling
\* expect_change(c) with a mutator in another thread, c is still registered
\* when the mutator returns unless a state change has consumed it, and
\* without a caller's expectation the slot is empty after every mutator.
C36_CallerExpectationKept ==
    [][MutatorRelease =>
          IF expected_state_change \in {<<c>> : c \in CallerChanges}
          THEN expected_state_change' = expected_state_change
          ELSE expected_state_change = <<DefaultChange(mutator_method)>> =>
                  expected_state_change' = << >>]_vars

\* how many times a signal is in the signals a step has sent
Count(signal, sent) ==
    Cardinality({i \in 1..Len(sent) : sent[i] = signal})

\* C37: per watched item, the became_invalid and became_valid signals
\* strictly alternate: became_invalid is sent once by every step that makes a
\* valid item invalid and by no other step, became_valid is sent once by
\* every step that makes an invalid item valid and by no other step, for
\* any interleaving of invalidate, set_value, gathers and timers.
C37_ValiditySignalsAlternate ==
    [][/\ Count("became_invalid", signals') =
            IF item_valid /\ ~item_valid' THEN 1 ELSE 0
       /\ Count("became_valid", signals') =
            IF ~item_valid /\ item_valid' THEN 1 ELSE 0]_vars

C37_Witness ==
    /\ ~item_valid
    /\ item_value \in Values
    /\ Count("became_invalid", signals) = 1

\* C38: timed_out is emitted for an item only while the item is invalid: if
\* the item becomes valid before its deadline, no timed_out and no
\* val_err_timeout of the timeout is emitted for that invalid period, under
\* every interleaving of the timeout thread's check with set_value.
C38_TimedOutOnlyWhileInvalid ==
    [][TimeoutTimeOut => ~item_valid]_vars

\* C40: awaiting_error_reason is true while an error-reason waiter is
\* pending: it is set when a generic stop/kill line starts a waiter and
\* cleared when that waiter ends, and an earlier, cancelled waiter that
\* finishes does not clear it while the newer waiter is still waiting.
C40_AwaitingWhileWaiterPending ==
    \A i \in 1..MaxThreads :
        (i = error_reason_thread /\ waiter_pc[i] \in {"started", "waiting"})
            => awaiting_error_reason

-----------------------------------------------------------------------------
(* SDCard (informers/filesystem/sd_card.py): update() runs in the sd_updater
   thread, sd_inserted and sd_ejected in the serial reader's thread *)

\* const.py: the states of the printing layer
PRINTING_STATES == {"PRINTING", "PAUSED", "FINISHED", "STOPPED"}

\* the names on the card
LongNames == {"a", "b"}

DirNames == {"d"}

ShortPaths == {"/A.GCO", "/B.GCO", "/D/A.GCO"}

\* the three lines LFN_CAPTURE captures: a dir entry (groups[0], the long
\* name of the directory in groups[2]), a list item (groups[3], the short
\* path in groups[4], the long file name in groups[6]), a dir exit (groups[8])
DirEntry(name) ==
    [kind |-> "dir_entry", short_path |-> None, name |-> name]

ListItem(short_path, name) ==
    [kind |-> "list_item", short_path |-> short_path, name |-> name]

DirExit == [kind |-> "dir_exit", short_path |-> None, name |-> None]

CapturedLines ==
    {DirEntry(name) : name \in DirNames}
        \cup {ListItem(short_path, name) :
                short_path \in ShortPaths, name \in LongNames}
        \cup {DirExit}

\* the longest listing
MaxLines == 3

Listings == UNION {[1..n -> CapturedLines] : n \in 0..MaxLines}

\* Path("/") is the empty sequence of names
joinpath(dir, name) == Append(dir, name)

parent(dir) == IF dir = << >> THEN << >> ELSE SubSeq(dir, 1, Len(dir) - 1)

\* dict[key] = value
Store(dict, key, value) ==
    {pair \in dict : pair[1] # key} \cup {<<key, value>>}

\* faulty variant: the long path is the long file name alone
long_path_of_name(current_dir, long_file_name) == <<long_file_name>>

\* new_construct_file_tree: long_path = current_dir.joinpath(long_file_name)
long_path(current_dir, long_file_name) == joinpath(current_dir, long_file_name)

\* new_construct_file_tree: the loop over instruction.captured
RECURSIVE captured_loop(_, _, _)
captured_loop(lines, current_dir, result) ==
    IF lines = << >> THEN result
    ELSE LET match == Head(lines)
             path == long_path(current_dir, match.name)
         IN  CASE match.kind = "dir_entry" ->
                    captured_loop(Tail(lines),
                                  joinpath(current_dir, match.name), result)
               [] match.kind = "list_item" ->
                    captured_loop(Tail(lines), current_dir,
                        [lfn_to_sfn_paths |->
                            Store(result.lfn_to_sfn_paths, path,
                                  match.short_path),
                         sfn_to_lfn_paths |->
                            Store(result.sfn_to_lfn_paths, match.short_path,
                                  path),
                         tree |-> result.tree \cup {path}])
               [] match.kind = "dir_exit" ->
                    captured_loop(Tail(lines), parent(current_dir), result)

\* new_construct_file_tree after the listing instruction has been waited
\* for: the tree is the set of the long paths added to it
new_construct_file_tree(lines) ==
    captured_loop(lines, << >>,
                  [lfn_to_sfn_paths |-> {}, sfn_to_lfn_paths |-> {},
                   tree |-> {}])

outside_sd == <<sm_vars, conc_vars, iu_vars, group_vars, cmd_vars, stop_vars>>

BecomesSD(d) ==
    /\ sd' = d
    /\ UNCHANGED <<captured, outside_sd>>

\* the command a step has enqueued and the signal it has sent are those of
\* that step
quiet(d) == [d EXCEPT !.enqueued = None, !.sent = None]

MountSignals == {"sd_mounted", "sd_unmounted"}

\* Signal.send: the signal of this step, and the last mount signal sent
send_signal(d, signal) ==
    [d EXCEPT !.sent = signal,
              !.last_mount_signal = IF signal \in MountSignals THEN signal
                                    ELSE @]

\* sd_state_changed: the signal sent for a change of sd_state to new_state
mount_signal(sd_state, new_state) ==
    IF sd_state \in {"INITIALISING", "UNSURE"} /\ new_state = "PRESENT"
    THEN "sd_mounted"
    ELSE IF sd_state = "PRESENT" /\ new_state \in {"ABSENT", "INITIALISING"}
         THEN "sd_unmounted"
         ELSE None

\* bool(files): files were found
found(files) == files # << >> /\ files[1] # {}

\* update(): nothing is done while printing, nor when the tree is not
\* invalidated and the scan interval has not passed
UpdateCheck ==
    /\ sd.update_pc = "idle"
    /\ \E interval_passed \in BOOLEAN :
           BecomesSD(IF get_state(SM) \in PRINTING_STATES
                     THEN quiet(sd)
                     ELSE IF ~sd.invalidated /\ ~interval_passed
                          THEN quiet(sd)
                          ELSE [quiet(sd) EXCEPT !.update_pc = "mark"])

\* update(): last_updated = time(); invalidated = False
UpdateMark ==
    /\ sd.update_pc = "mark"
    /\ BecomesSD([quiet(sd) EXCEPT !.invalidated = FALSE,
                                   !.update_pc = "construct"])

\* new_construct_file_tree: no tree for an absent card, else the listing
\* command is enqueued
UpdateConstruct ==
    /\ sd.update_pc = "construct"
    /\ BecomesSD(IF sd.sd_state = "ABSENT"
                 THEN [quiet(sd) EXCEPT !.files = << >>, !.update_pc = "unsure"]
                 ELSE [quiet(sd) EXCEPT !.enqueued = "M20 -L",
                                        !.update_pc = "listing"])

\* new_construct_file_tree: the instruction has been waited for, its
\* captured lines are parsed and the translations and the tree are stored
UpdateListed ==
    /\ sd.update_pc = "listing"
    /\ LET result == new_construct_file_tree(captured)
       IN  BecomesSD([quiet(sd) EXCEPT
                         !.lfn_to_sfn_paths = result.lfn_to_sfn_paths,
                         !.sfn_to_lfn_paths = result.sfn_to_lfn_paths,
                         !.files = <<result.tree>>,
                         !.update_pc = "unsure"])

\* update(): with the state of the card not known, files show that it is
\* present and no files make decide_presence ask the printer (M21)
UpdateUnsure ==
    /\ sd.update_pc = "unsure"
    /\ BecomesSD(IF sd.sd_state = "UNSURE"
                 THEN IF found(sd.files)
                      THEN [quiet(sd) EXCEPT !.update_pc = "changed",
                                             !.update_new_state = "PRESENT",
                                             !.update_return = "initialising"]
                      ELSE [quiet(sd) EXCEPT !.expecting_insertion = TRUE,
                                             !.enqueued = "M21",
                                             !.update_pc = "deciding"]
                 ELSE [quiet(sd) EXCEPT !.update_pc = "initialising"])

\* decide_presence after the wait for M21
DecidePresence ==
    /\ sd.update_pc = "deciding"
    /\ \E answer \in {"unconfirmed", "present", "absent"} :
         LET d == [quiet(sd) EXCEPT !.expecting_insertion = FALSE]
             change(new_state) ==
                 [d EXCEPT !.update_pc = "changed",
                           !.update_new_state = new_state,
                           !.update_return = "initialising"]
         IN  BecomesSD(CASE answer = "unconfirmed" ->
                              [d EXCEPT !.update_pc = "initialising"]
                         [] answer = "present" ->
                              IF sd.sd_state # "PRESENT"
                              THEN change("PRESENT")
                              ELSE [d EXCEPT !.update_pc = "initialising"]
                         [] answer = "absent" -> change("ABSENT"))

\* update(): an initialising card is present once the tree has been built
UpdateInitialising ==
    /\ sd.update_pc = "initialising"
    /\ BecomesSD(IF sd.sd_state = "INITIALISING"
                 THEN [quiet(sd) EXCEPT !.update_pc = "changed",
                                        !.update_new_state = "PRESENT",
                                        !.update_return = "tree_updated"]
                 ELSE [quiet(sd) EXCEPT !.update_pc = "tree_updated"])

\* update(): tree_updated_signal.send
UpdateTreeUpdated ==
    /\ sd.update_pc = "tree_updated"
    /\ BecomesSD(send_signal([quiet(sd) EXCEPT !.update_pc = "idle"], "tree_updated"))

\* sd_state_changed in the updater thread: sd_state is read and the mount
\* signal is sent
UpdateChanged ==
    /\ sd.update_pc = "changed"
    /\ BecomesSD(send_signal([quiet(sd) EXCEPT !.update_pc = "write"],
                      mount_signal(sd.sd_state, sd.update_new_state)))

\* sd_state_changed in the updater thread: sd_state = new_state and
\* state_changed_signal.send
UpdateWrite ==
    /\ sd.update_pc = "write"
    /\ BecomesSD(send_signal([quiet(sd) EXCEPT !.sd_state = sd.update_new_state,
                                        !.update_pc = sd.update_return,
                                        !.update_new_state = None,
                                        !.update_return = None],
                      "state_changed"))

\* sd_inserted: an expected line ends the expectation, an unexpected one
\* invalidates the tree and the card is initialising
SdInserted ==
    /\ sd.handler_pc = "idle"
    /\ BecomesSD(IF sd.expecting_insertion
                 THEN [quiet(sd) EXCEPT !.expecting_insertion = FALSE]
                 ELSE [quiet(sd) EXCEPT !.invalidated = TRUE,
                                        !.handler_pc = "changed",
                                        !.handler_new_state = "INITIALISING"])

\* sd_ejected: the tree is invalidated and the card is absent
SdEjected ==
    /\ sd.handler_pc = "idle"
    /\ BecomesSD([quiet(sd) EXCEPT !.invalidated = TRUE,
                                   !.handler_pc = "changed",
                                   !.handler_new_state = "ABSENT"])

\* sd_state_changed in the serial reader's thread
HandlerChanged ==
    /\ sd.handler_pc = "changed"
    /\ BecomesSD(send_signal([quiet(sd) EXCEPT !.handler_pc = "write"],
                      mount_signal(sd.sd_state, sd.handler_new_state)))

HandlerWrite ==
    /\ sd.handler_pc = "write"
    /\ BecomesSD(send_signal([quiet(sd) EXCEPT !.sd_state = sd.handler_new_state,
                                        !.handler_pc = "idle",
                                        !.handler_new_state = None],
                      "state_changed"))

\* the updater thread
NextUpdate ==
    \/ UpdateCheck
    \/ UpdateMark
    \/ UpdateConstruct
    \/ UpdateListed
    \/ UpdateUnsure
    \/ DecidePresence
    \/ UpdateInitialising
    \/ UpdateTreeUpdated
    \/ UpdateChanged
    \/ UpdateWrite

NextSD ==
    \/ NextUpdate
    \/ SdInserted
    \/ SdEjected
    \/ HandlerChanged
    \/ HandlerWrite
    \/ Printing
    \/ Stopped
    \/ NotPrinting

\* the printer's answers to the listing command: no file, one file
SdAnswers == {<< >>, <<ListItem("/A.GCO", "a")>>}

NewCard ==
    /\ NewManager
    /\ sd = NewSD
    /\ reset_pin = RESET_PIN
    /\ ok = [state \in ErrorStates |-> TRUE]
    /\ M0_after_prints
    /\ NoItems

InitSD == NewCard /\ captured \in SdAnswers

SpecSD == InitSD /\ [][NextSD]_vars

\* the list items of a listing
ListItems(lines) == {i \in 1..Len(lines) : lines[i].kind = "list_item"}

\* the directory the listing is in at its i-th line
RECURSIVE DirAt(_, _)
DirAt(lines, i) ==
    IF i = 1 THEN << >>
    ELSE LET before == DirAt(lines, i - 1)
         IN  CASE lines[i - 1].kind = "dir_entry" ->
                    Append(before, lines[i - 1].name)
               [] lines[i - 1].kind = "dir_exit" -> parent(before)
               [] OTHER -> before

\* the long path of the i-th line, a list item
LongPathAt(lines, i) == Append(DirAt(lines, i), lines[i].name)

\* a listing of a FAT file system names no short path twice and no long
\* name twice in one directory
FatListing(lines) ==
    \A i, j \in ListItems(lines) :
        i # j => /\ lines[i].short_path # lines[j].short_path
                 /\ LongPathAt(lines, i) # LongPathAt(lines, j)

InitListing == NewCard /\ captured \in {lines \in Listings : FatListing(lines)}

SpecListing == InitListing /\ [][NextUpdate]_vars

\* new_construct_file_tree has just stored the translations of the listing
Parsed == sd.update_pc = "unsure" /\ sd.files # << >>

Inverse(dict) == {<<pair[2], pair[1]>> : pair \in dict}

C39_MountSignalsAlternate ==
    [][(sd' # sd /\ sd'.sent \in MountSignals) =>
          /\ sd'.sent # sd.last_mount_signal
          /\ sd.last_mount_signal = None => sd'.sent = "sd_mounted"]_vars

\* the reported state is in the printing layer
InPrintingLayer == get_state(SM) \in PRINTING_STATES

\* an ejection and an unexpected insertion invalidate the tree; an update
\* tick in the printing layer leaves the invalidation as it is, a tick outside
\* of it with the tree invalidated goes on to rebuild it, and nothing but a
\* rebuild ends the invalidation
InvalidationKept ==
    /\ SdEjected => sd'.invalidated
    /\ (SdInserted /\ ~sd.expecting_insertion) => sd'.invalidated
    /\ (UpdateCheck /\ InPrintingLayer) =>
          (sd'.invalidated = sd.invalidated /\ sd'.update_pc = "idle")
    /\ (UpdateCheck /\ ~InPrintingLayer /\ sd.invalidated) =>
          sd'.update_pc = "mark"
    /\ (sd.invalidated /\ ~sd'.invalidated) => UpdateMark

\* the listing command is not enqueued in the printing layer
NoListingWhilePrinting ==
    (sd' # sd /\ sd'.enqueued = "M20 -L") => ~InPrintingLayer

\* C31: every ejection and unexpected insertion invalidates the tree; no
\* listing command is issued while the reported state is in the printing
\* layer, an invalidation received meanwhile is kept, and the tree is rebuilt
\* on the first update tick outside of the printing layer
C31_RebuiltUnlessPrinting ==
    [][InvalidationKept /\ NoListingWhilePrinting]_vars

============================================================================
